---------------------------- MODULE Spec2Model ----------------------------
(***************************************************************************)
(* Model of Emperator's analysis orchestration (src/emperator/analysis):   *)
(* fingerprint_analysis and execute_analysis_plan with its helpers.        *)
(*                                                                         *)
(* Conventions.  An optional Python value (x | None) is a sequence of      *)
(* length at most one: None is <<>>, a present value v is <<v>>.  A note   *)
(* (an f-string in the source) is a record of the format's kind and the    *)
(* values interpolated into it.  A datetime is an integer number of        *)
(* seconds.  SHA-256 is taken to be collision free: the digest of a        *)
(* canonical payload is the payload under a tag.                           *)
(***************************************************************************)
EXTENDS Naturals, Integers, Sequences, FiniteSets, TLC

VARIABLES
    \* ---- inputs of execute_analysis_plan -------------------------------
    plans,              \* materialised: the sequence of AnalyzerPlan
    include_unready,    \* bool
    severity_filter,    \* optional tuple of labels, as supplied by the caller
    store_supplied,     \* telemetry_store is not None; read, and drawn, by Return
    callbacks_supplied, \* on_step_start and on_step_complete are not None
    time_source,        \* how the readings of time_source() run: see TimeAt
    \* ---- locals of execute_analysis_plan -------------------------------
    pc,                 \* "call" | "plan" | "step" | "done" | "raised"
    fingerprint,        \* optional digest
    normalised_filter,  \* optional tuple of lower-cased labels
    started_at,
    plan_index,         \* position of the for-loop over materialised
    steps_to_run,       \* surviving steps of the current plan
    step_index,         \* position of the for-loop over steps_to_run
    events,
    notes,
    returned,           \* optional TelemetryRun: the value returned
    raised,             \* optional type of the exception the call raised
    \* ---- environment ---------------------------------------------------
    ticks,              \* number of calls of the time source so far
    trace,              \* runner invocations and callback invocations, in order
    last_outcome,       \* optional: what the runner's last call did
    failures,           \* number of failing runner outcomes so far
    store_runs,         \* InMemoryTelemetryStore._runs
    \* ---- fingerprint_analysis applied to free inputs -------------------
    fp_report,          \* AnalysisReport
    fp_plans,           \* plans
    fp_prev,            \* digest before the last operation
    fp_op,              \* the last operation applied to the inputs
    \* ---- the telemetry stores driven by a client ------------------------
    store_kind,         \* "memory" | "jsonl": the store the client holds
    max_history,        \* JSONLTelemetryStore._max_history: optional int
    files,              \* the store's directory: path -> the file's lines
    st_pc,              \* position within JSONLTelemetryStore.persist
    st_run,             \* optional: the run persist was called with
    st_history,         \* persist's local history after truncation
    st_written,         \* number of lines written to the temporary file
    st_result,          \* optional: what the last call of the client gave
    persists,           \* number of persist calls so far
    persisted,          \* fingerprint -> the runs persisted so far, in order
    \* ---- a CodeQLManager driven by a client ----------------------------
    codeql_path,        \* CodeQLManager._codeql_path: optional path
    which_codeql,       \* what shutil.which('codeql') gives: optional path
    cache_in_source,    \* the cache directory lies under the source root
    source_files,       \* the files of the source tree: name -> mtime
    cache_dirs,         \* the cache directory: database directory -> content
    ql_pc,              \* "idle" | "running": create_database awaits the process
    ql_call,            \* optional: the create_database call under way or last made
    ql_result,          \* optional: what the last call of the client gave
    ql_now,             \* the last reading of the clock (datetime.now, st_mtime_ns)
    touches,            \* number of changes made to the source tree so far
    commands,           \* the external commands invoked so far, in order
    last_create,        \* language -> optional: how the last create_database ended
    \* ---- two writers on one telemetry directory --------------------------
    writer_pc,          \* writer -> "idle" | "open" | "write": position in persist
    writer_run,         \* writer -> optional: the run persist was called with
    writer_history,     \* writer -> persist's local history
    writer_written,     \* writer -> number of lines written through its handle
    writer_handle,      \* writer -> where the file it opened is now
    writer_result,      \* writer -> optional: what its last persist gave
    overlapped,         \* the fingerprints for which two persists overlapped
    \* ---- the severity gate applied to free tool events -----------------
    gate_events,        \* tool_events: the metadata of each event, in order
    gate_prev,          \* optional: the gate's outcome before the last operation
    gate_op,            \* the last operation applied to the events
    \* ---- two CodeQLManager instances over one source tree --------------
    mg_inside,          \* manager -> its cache directory lies under the source root
    mg_fs,              \* the cache directories: database directory -> content
    mg_alone,           \* manager -> the cache directories had it run alone
    mg_pc,              \* manager -> "idle" | "running": create_database awaits
    mg_call,            \* manager -> optional: its create_database call under way
    mg_result,          \* optional: the last operation and what it gave
    mg_now,             \* the last reading of the clock
    mg_ops              \* number of operations begun so far

engineLocals == <<plans, include_unready, severity_filter, store_supplied,
                  callbacks_supplied, time_source, pc, fingerprint,
                  normalised_filter, started_at, plan_index, steps_to_run,
                  step_index, events, notes, returned, raised, ticks, trace,
                  last_outcome, failures>>

engineVars == <<engineLocals, store_runs>>

fpVars == <<fp_report, fp_plans, fp_prev, fp_op>>

storeVars == <<store_kind, max_history, files, st_pc, st_run, st_history,
               st_written, st_result, persists, persisted>>

qlVars == <<codeql_path, which_codeql, cache_in_source, source_files,
            cache_dirs, ql_pc, ql_call, ql_result, ql_now, touches,
            commands, last_create>>

wrVars == <<writer_pc, writer_run, writer_history, writer_written,
            writer_handle, writer_result, overlapped>>

gateVars == <<gate_events, gate_prev, gate_op>>

mgVars == <<mg_inside, mg_fs, mg_alone, mg_pc, mg_call, mg_result, mg_now,
            mg_ops>>

vars == <<engineVars, fpVars, storeVars, qlVars, wrVars, gateVars, mgVars>>

\* what an action of one part of the model leaves alone
outsideEngine == <<fpVars, storeVars, qlVars, wrVars, gateVars, mgVars>>

outsideFingerprint == <<engineVars, storeVars, qlVars, wrVars, gateVars, mgVars>>

outsideStore == <<engineLocals, fpVars, qlVars, wrVars, gateVars, mgVars>>

outsideCodeQL == <<engineVars, fpVars, storeVars, wrVars, gateVars, mgVars>>

outsideWriters == <<engineVars, fpVars, qlVars, gateVars, mgVars>>

outsideGate == <<engineVars, fpVars, storeVars, qlVars, wrVars, mgVars>>

outsideManagers == <<engineVars, fpVars, storeVars, qlVars, wrVars, gateVars>>

-----------------------------------------------------------------------------
(* Optional values *)

None == <<>>

Some(v) == <<v>>

-----------------------------------------------------------------------------
(* Bounds of the model *)

\* steps per plan
MaxSteps == 2

\* failing runner outcomes (non-zero exit or OSError) per run
MaxFailures == 1

\* seconds the time source advances per call
TickSeconds == 4

\* length of the collections handed to fingerprint_analysis
FpMaxItems == 2

\* create_database calls made by the client of the CodeQL manager
MaxCreates == 2

\* changes the client makes to the source tree
MaxTouches == 1


-----------------------------------------------------------------------------
(* Strings.  Python compares str by code point; the names the model uses,   *)
(* in that order.                                                           *)

NameOrder == <<"CodeQL", "Go", "Python", "Semgrep">>

NameRank(name) == CHOOSE i \in 1..Len(NameOrder) : NameOrder[i] = name

\* str.lower() on the severity labels the model uses
Lower(label) ==
    CASE label = "HIGH" -> "high"
      [] label = "High" -> "high"
      [] label = "LOW" -> "low"
      [] OTHER -> label

Range(seq) == {seq[i] : i \in 1..Len(seq)}

RECURSIVE SeqsUpTo(_, _)
\* the sequences over S of length at most n
SeqsUpTo(S, n) ==
    IF n = 0 THEN {<<>>}
    ELSE LET shorter == SeqsUpTo(S, n - 1)
         IN  shorter \cup {Append(q, x) : q \in {r \in shorter : Len(r) = n - 1}, x \in S}

-----------------------------------------------------------------------------
(* fingerprint_analysis *)

RECURSIVE sorted(_, _)
\* sorted(seq, key=...): a stable sort; rank[x] is the rank of x's key
sorted(seq, rank) ==
    IF seq = <<>> THEN <<>>
    ELSE LET n == Len(seq)
             front == sorted(SubSeq(seq, 1, n - 1), rank)
             x == seq[n]
             k == Cardinality({i \in 1..Len(front) : rank[front[i]] <= rank[x]})
         IN  SubSeq(front, 1, k) \o <<x>> \o SubSeq(front, k + 1, Len(front))

SerialisedLanguages(languages) ==
    LET inOrder == sorted(languages, [s \in Range(languages) |-> NameRank(s.language)])
    IN  [i \in 1..Len(inOrder) |->
            [language |-> inOrder[i].language,
             file_count |-> inOrder[i].file_count,
             sample_files |-> inOrder[i].sample_files]]

SerialisedToolStatuses(tool_statuses) ==
    LET inOrder == sorted(tool_statuses,
                          [s \in Range(tool_statuses) |-> NameRank(s.name)])
    IN  [i \in 1..Len(inOrder) |->
            [name |-> inOrder[i].name,
             available |-> inOrder[i].available,
             location |-> inOrder[i].location]]

\* the mutant: a step serialised as its command alone
SerialisedStep_CommandOnly(step) == [command |-> step.command]

SerialisedStep(step) ==
    [command |-> step.command,
     description |-> step.description,
     severity |-> step.severity]

SerialisedPlans(ps) ==
    LET inOrder == sorted(ps, [p \in Range(ps) |-> NameRank(p.tool)])
    IN  [i \in 1..Len(inOrder) |->
            [tool |-> inOrder[i].tool,
             ready |-> inOrder[i].ready,
             reason |-> inOrder[i].reason,
             steps |-> [j \in 1..Len(inOrder[i].steps) |->
                           SerialisedStep(inOrder[i].steps[j])]]]

\* the dict handed to json.dumps(sort_keys=True, separators=(',', ':'))
CanonicalPayload(report, ps, metadata) ==
    [project_root |-> report.project_root,
     languages |-> SerialisedLanguages(report.languages),
     tool_statuses |-> SerialisedToolStatuses(report.tool_statuses),
     plans |-> SerialisedPlans(ps),
     metadata |-> metadata]

\* hashlib.sha256(data).hexdigest(), collision free
sha256(data) == <<"sha256", data>>

fingerprint_analysis(report, ps, metadata) ==
    sha256(CanonicalPayload(report, ps, IF metadata = None THEN <<>> ELSE metadata[1]))

-----------------------------------------------------------------------------
(* The values of the engine's model *)

\* subprocess.CompletedProcess(command, returncode=127, ...) of _invoke_runner
LaunchFailureExitCode == 127

\* the tools plan_tool_invocations plans, in the order it plans them
PlannedTools == <<"Semgrep", "CodeQL">>

Binary(tool) == IF tool = "Semgrep" THEN "semgrep" ELSE "codeql"

\* AnalyzerCommand.severity along a plan's steps: absent, then a label the
\* filter "high" drops, then one it keeps when compared case-insensitively
SeverityCycle == <<None, Some("low"), Some("HIGH")>>

\* the k-th AnalyzerCommand of a tool's plan
AnalyzerCommand(tool, k, severity) ==
    [command |-> <<Binary(tool), ToString(k)>>,
     description |-> "step " \o ToString(k),
     severity |-> severity]

\* the plans of a tool: ready or not, with up to MaxSteps steps whose
\* severities run through SeverityCycle from any starting point
AnalyzerPlans(tool) ==
    {[tool |-> tool,
      ready |-> ready,
      reason |-> IF ready THEN "ready" ELSE "not installed",
      steps |-> [k \in 1..n |->
                    AnalyzerCommand(tool, k,
                        SeverityCycle[((first + k - 1) % Len(SeverityCycle)) + 1])]] :
        ready \in BOOLEAN, n \in 0..MaxSteps, first \in 0..(Len(SeverityCycle) - 1)}

\* the plan collections handed to execute_analysis_plan
PlanInputs ==
    {<<>>}
    \cup {<<p>> : p \in AnalyzerPlans(PlannedTools[1]) \cup AnalyzerPlans(PlannedTools[2])}
    \cup {<<p, q>> : p \in AnalyzerPlans(PlannedTools[1]), q \in AnalyzerPlans(PlannedTools[2])}

\* severity_filter as supplied: None, an empty filter, a filter in mixed case,
\* a filter that names no severity of any step
FilterInputs == {None, Some(<<>>), Some(<<"High">>), Some(<<"medium">>)}

\* the report and the metadata of the call
Report ==
    [project_root |-> "/repo",
     languages |-> <<[language |-> "Python", file_count |-> 1,
                      sample_files |-> <<"src/app.py">>]>>,
     tool_statuses |-> <<>>]

Metadata == Some([command |-> "unit-test"])

\* what a runner may hand back: an int, or an object with or without the
\* attributes returncode and exit_code
RunnerResults ==
    {[is_int |-> TRUE, value |-> 0, returncode |-> None, exit_code |-> None]}
    \cup {[is_int |-> FALSE, value |-> 0, returncode |-> Some(c), exit_code |-> None] :
            c \in {0, 1, LaunchFailureExitCode}}
    \cup {[is_int |-> FALSE, value |-> 0, returncode |-> None, exit_code |-> Some(1)],
          [is_int |-> FALSE, value |-> 0, returncode |-> Some(0), exit_code |-> Some(1)],
          [is_int |-> FALSE, value |-> 0, returncode |-> None, exit_code |-> None]}

\* a call of the runner returns a result, or raises: OSError(message), or an
\* exception of another type (a runner with a timeout: subprocess.TimeoutExpired)
RunnerOutcomes ==
    {[raises |-> FALSE, exception |-> "", result |-> r, message |-> ""] :
        r \in RunnerResults}
    \cup {[raises |-> TRUE, exception |-> "OSError",
           result |-> CHOOSE r \in RunnerResults : r.is_int /\ r.value = 0,
           message |-> "binary not found"],
          [raises |-> TRUE, exception |-> "TimeoutExpired",
           result |-> CHOOSE r \in RunnerResults : r.is_int /\ r.value = 0,
           message |-> "timed out"]}

\* time_source(): the n-th call (from 0)
TimeAt(n) ==
    CASE time_source = "advancing" -> n * TickSeconds
      [] time_source = "receding" -> 0 - n * TickSeconds
      [] time_source = "jittering" ->
            IF n % 2 = 1 THEN (n + 2) * TickSeconds ELSE n * TickSeconds

\* the mutant: the difference of two readings taken as it is
Max_First(a, b) == a

Max(a, b) == IF a >= b THEN a ELSE b

-----------------------------------------------------------------------------
(* Helpers of execute_analysis_plan *)

Note(kind, tool, subject, code, message) ==
    [kind |-> kind, tool |-> tool, subject |-> subject, code |-> code, message |-> message]

\* the mutant: a result without an exit code taken for success
extract_exit_code_DefaultZero(result) ==
    IF result.is_int THEN Some(result.value)
    ELSE IF result.returncode # None THEN Some(result.returncode[1])
    ELSE IF result.exit_code # None THEN Some(result.exit_code[1])
    ELSE Some(0)

\* _extract_exit_code: the exit code, or None where the source raises TypeError
extract_exit_code(result) ==
    IF result.is_int THEN Some(result.value)
    ELSE IF result.returncode # None THEN Some(result.returncode[1])
    ELSE IF result.exit_code # None THEN Some(result.exit_code[1])
    ELSE None

\* the mutant: no exception of the runner is caught
Propagates_NothingCaught(outcome) == outcome.raises

\* try ... except OSError: whether an outcome of the runner leaves _invoke_runner
\* as an exception
Propagates(outcome) == outcome.raises /\ outcome.exception # "OSError"

\* the mutant: the OSError is caught but its message is not handed back
invoke_runner_NoMessage(outcome) ==
    IF outcome.raises
    THEN <<[is_int |-> FALSE, value |-> 0,
            returncode |-> Some(LaunchFailureExitCode), exit_code |-> None],
           None>>
    ELSE <<outcome.result, None>>

\* _invoke_runner: <<result, error_message>> for an outcome of the runner
invoke_runner(outcome) ==
    IF outcome.raises
    THEN <<[is_int |-> FALSE, value |-> 0,
            returncode |-> Some(LaunchFailureExitCode), exit_code |-> None],
           Some(outcome.message)>>
    ELSE <<outcome.result, None>>

\* the mutant: the note of a filtered step is made but the step is not skipped
severity_execution_decision_NeverSkips(step, filter, tool) ==
    IF filter = None \/ filter = Some(<<>>) THEN <<FALSE, None>>
    ELSE IF step.severity = None
    THEN <<FALSE, Some(Note("lacks_severity", tool, <<step.description>>, 0, ""))>>
    ELSE IF Lower(step.severity[1]) \notin Range(filter[1])
    THEN <<FALSE, Some(Note("skipped_severity", tool, <<step.description>>, 0, ""))>>
    ELSE <<FALSE, None>>

\* the mutant: a step without severity treated as not matching the filter
severity_execution_decision_SkipsMissing(step, filter, tool) ==
    IF filter = None \/ filter = Some(<<>>) THEN <<FALSE, None>>
    ELSE IF step.severity = None
    THEN <<TRUE, Some(Note("skipped_severity", tool, <<step.description>>, 0, ""))>>
    ELSE IF Lower(step.severity[1]) \notin Range(filter[1])
    THEN <<TRUE, Some(Note("skipped_severity", tool, <<step.description>>, 0, ""))>>
    ELSE <<FALSE, None>>

\* _severity_execution_decision: <<skip_step, severity_note>>
severity_execution_decision(step, filter, tool) ==
    IF filter = None \/ filter = Some(<<>>) THEN <<FALSE, None>>
    ELSE IF step.severity = None
    THEN <<FALSE, Some(Note("lacks_severity", tool, <<step.description>>, 0, ""))>>
    ELSE IF Lower(step.severity[1]) \notin Range(filter[1])
    THEN <<TRUE, Some(Note("skipped_severity", tool, <<step.description>>, 0, ""))>>
    ELSE <<FALSE, None>>

RECURSIVE FilterSteps(_, _, _)
\* the loop of _prepare_plan_steps over plan.steps: <<executable, notes>>
FilterSteps(steps, filter, tool) ==
    IF steps = <<>> THEN <<<<>>, <<>>>>
    ELSE LET rest == FilterSteps(Tail(steps), filter, tool)
             decision == severity_execution_decision(Head(steps), filter, tool)
         IN  <<IF decision[1] THEN rest[1] ELSE <<Head(steps)>> \o rest[1],
               decision[2] \o rest[2]>>

\* the mutant: include_unready read the wrong way round
SkipsUnready_Inverted(plan, unready) == ~plan.ready /\ unready

\* the branch of _prepare_plan_steps that returns no steps for an unready plan
SkipsUnready(plan, unready) == ~plan.ready /\ ~unready

\* _prepare_plan_steps: <<executable, notes>>
prepare_plan_steps(plan, unready, filter) ==
    LET first == IF plan.ready THEN <<>>
                 ELSE IF ~SkipsUnready(plan, unready)
                      THEN <<Note("forced", plan.tool, <<plan.reason>>, 0, "")>>
                      ELSE <<Note("skipped_unready", plan.tool, <<plan.reason>>, 0, "")>>
    IN  IF SkipsUnready(plan, unready) THEN <<<<>>, first>>
        ELSE IF plan.steps = <<>>
        THEN <<<<>>, Append(first, Note("no_steps", plan.tool, <<>>, 0, ""))>>
        ELSE LET filtered == FilterSteps(plan.steps, filter, plan.tool)
             IN  <<filtered[1],
                   first \o filtered[2]
                   \o IF filtered[1] = <<>>
                      THEN <<Note("all_skipped", plan.tool, <<>>, 0, "")>>
                      ELSE <<>>>>

\* tuple(level.lower() for level in severity_filter), or None
NormaliseFilter(filter) ==
    IF filter = None THEN None
    ELSE Some([i \in 1..Len(filter[1]) |-> Lower(filter[1][i])])

-----------------------------------------------------------------------------
(* InMemoryTelemetryStore: _runs maps a fingerprint to its list of runs *)

EmptyRuns == [f \in {} |-> <<>>]

StorePersist(runs, run) ==
    IF run.fingerprint \in DOMAIN runs
    THEN [runs EXCEPT ![run.fingerprint] = Append(@, run)]
    ELSE [f \in DOMAIN runs \cup {run.fingerprint} |->
            IF f = run.fingerprint THEN <<run>> ELSE runs[f]]

StoreHistory(runs, digest) == IF digest \in DOMAIN runs THEN runs[digest] ELSE <<>>

StoreLatest(runs, digest) ==
    LET history == StoreHistory(runs, digest)
    IN  IF history = <<>> THEN None ELSE Some(history[Len(history)])

\* the mutant: the dict subscripted, which makes the default entry
defaultdict_get_Subscript(runs, key) ==
    IF key \in DOMAIN runs THEN [value |-> Some(runs[key]), runs |-> runs]
    ELSE [value |-> Some(<<>>),
          runs |-> [f \in DOMAIN runs \cup {key} |->
                      IF f = key THEN <<>> ELSE runs[f]]]

\* self._runs.get(fingerprint) on the defaultdict: the value found, if any, and
\* the dict afterwards
defaultdict_get(runs, key) ==
    IF key \in DOMAIN runs THEN [value |-> Some(runs[key]), runs |-> runs]
    ELSE [value |-> None, runs |-> runs]

-----------------------------------------------------------------------------
(* TelemetryEvent, TelemetryRun: payloads.  A mapping is a set of <<key,   *)
(* value>> pairs.  json.dump followed by json.loads gives back a payload   *)
(* of strings, integers, lists and dicts as it was.                        *)

\* datetime.isoformat(), datetime.fromisoformat()
isoformat(t) == <<"iso", t>>

fromisoformat(text) == text[2]

\* TelemetryEvent.to_payload
event_to_payload(event) ==
    [tool |-> event.tool,
     command |-> event.command,
     exit_code |-> event.exit_code,
     duration_seconds |-> event.duration_seconds,
     timestamp |-> isoformat(event.timestamp),
     metadata |-> IF event.metadata = None THEN {} ELSE event.metadata[1]]

\* TelemetryEvent.from_payload
event_from_payload(payload) ==
    [tool |-> payload.tool,
     command |-> payload.command,
     exit_code |-> payload.exit_code,
     duration_seconds |-> payload.duration_seconds,
     timestamp |-> fromisoformat(payload.timestamp),
     metadata |-> IF payload.metadata = {} THEN None ELSE Some(payload.metadata)]

\* TelemetryRun.to_payload
run_to_payload(run) ==
    [fingerprint |-> run.fingerprint,
     project_root |-> run.project_root,
     started_at |-> isoformat(run.started_at),
     completed_at |-> isoformat(run.completed_at),
     events |-> [k \in 1..Len(run.events) |-> event_to_payload(run.events[k])],
     notes |-> run.notes]

\* TelemetryRun.from_payload
run_from_payload(payload) ==
    [fingerprint |-> payload.fingerprint,
     project_root |-> payload.project_root,
     started_at |-> fromisoformat(payload.started_at),
     completed_at |-> fromisoformat(payload.completed_at),
     events |-> [k \in 1..Len(payload.events) |->
                   event_from_payload(payload.events[k])],
     notes |-> payload.notes]

-----------------------------------------------------------------------------
(* JSONLTelemetryStore.  A file is the sequence of its lines; a line is    *)
(* the JSON text of a run's payload, or text of another kind.              *)

\* json.dump(run.to_payload(), handle, sort_keys=True); handle.write('\n')
json_dump(payload) == [kind |-> "run", payload |-> Some(payload)]

\* lines that are no run: blank, not JSON, the JSON object {}, the JSON array []
CorruptKinds == {"blank", "garbage", "empty_object", "array"}

CorruptLine(kind) == [kind |-> kind, payload |-> None]

\* the body of the loop of _read_runs for one line: the run appended, if any,
\* and the exception that leaves the loop, if any
read_line(line) ==
    CASE line.kind = "blank" -> [raised |-> None, run |-> None]
      [] line.kind = "garbage" -> [raised |-> None, run |-> None]
      [] line.kind = "empty_object" -> [raised |-> None, run |-> None]
      [] line.kind = "array" -> [raised |-> Some("AttributeError"), run |-> None]
      [] line.kind = "run" ->
            [raised |-> None, run |-> Some(run_from_payload(line.payload[1]))]

RECURSIVE read_lines(_)
read_lines(content) ==
    IF content = <<>> THEN [raised |-> None, runs |-> <<>>]
    ELSE LET first == read_line(Head(content))
         IN  IF first.raised # None THEN [raised |-> first.raised, runs |-> <<>>]
             ELSE LET rest == read_lines(Tail(content))
                  IN  IF rest.raised # None THEN rest
                      ELSE [raised |-> None, runs |-> first.run \o rest.runs]

\* the mutant: one file for every fingerprint
path_for_Shared(digest) == <<"telemetry", ".jsonl">>

\* JSONLTelemetryStore._path_for
path_for(digest) == <<digest, ".jsonl">>

\* the mutant: the lines written to the file itself
temp_path_InPlace(digest) == path_for(digest)

\* path.with_suffix(path.suffix + '.tmp')
temp_path(digest) == <<digest, ".jsonl.tmp">>

\* JSONLTelemetryStore._read_runs
read_runs(fs, digest) ==
    IF path_for(digest) \notin DOMAIN fs THEN [raised |-> None, runs |-> <<>>]
    ELSE read_lines(fs[path_for(digest)])

\* history[-n:] for n >= 0
LastSlice(history, n) ==
    IF n = 0 \/ n >= Len(history) THEN history
    ELSE SubSeq(history, Len(history) - n + 1, Len(history))

\* the mutant: only the run just appended is kept
truncate_NewestOnly(history, limit) == <<history[Len(history)]>>

\* lines 280-281 of persist
truncate(history, limit) ==
    IF limit = None THEN history ELSE LastSlice(history, limit[1])

EmptyFiles == [path \in {} |-> <<>>]

\* open(path, 'w') and the writes that follow: the file with this content
WriteFile(fs, path, content) ==
    [q \in DOMAIN fs \cup {path} |-> IF q = path THEN content ELSE fs[q]]

RemoveFile(fs, path) == [q \in DOMAIN fs \ {path} |-> fs[q]]

\* temp_path.replace(path)
ReplaceFile(fs, source, target) ==
    IF source = target THEN fs
    ELSE RemoveFile(WriteFile(fs, target, fs[source]), source)

Fingerprints == {"a", "b"}

StoreIdle ==
    /\ store_kind = "none"
    /\ max_history = None
    /\ files = EmptyFiles
    /\ st_pc = "idle"
    /\ st_run = None
    /\ st_history = <<>>
    /\ st_written = 0
    /\ st_result = None
    /\ persists = 0
    /\ persisted = [f \in Fingerprints |-> <<>>]

-----------------------------------------------------------------------------
(* The CodeQL manager (src/emperator/analysis/codeql.py).                  *)
(* A file is a record of its path's parts below the directory that holds   *)
(* it, its st_mtime_ns, its st_size and its text (None where the text is   *)
(* not read).  A database directory of the cache is the set of its files;  *)
(* the name of the directory is the pair of the language and the prefix of *)
(* the source fingerprint, prefixes of distinct digests taken distinct.    *)

METADATA_FILE_NAME == "metadata.json"

Languages == {"python", "go"}

SourceRoot == "project"

\* the parts of the cache directory below the source root, when it lies there
CacheDirParts == <<".emperator", "codeql-cache">>

File(parts, mtime, size, text) ==
    [parts |-> parts, mtime |-> mtime, size |-> size, text |-> text]

\* str(path) and Path(text)
str_path(path) == <<"str", path>>

Path(text) == text[2]

\* fingerprint[:12]
prefix12(digest) == <<"[:12]", digest>>

\* every file below source_root with its path relative to it
FilesBelowSource(src, cache, inside) ==
    src \cup
    (IF inside
     THEN UNION {{File(CacheDirParts \o <<d>> \o f.parts, f.mtime, f.size, f.text) :
                      f \in cache[d]} : d \in DOMAIN cache}
     ELSE {})

\* _iter_source_files: the files outside .git; sorted, so that the set
\* stands for the sequence
iter_source_files(src, cache, inside) ==
    {f \in FilesBelowSource(src, cache, inside) :
         \A i \in 1..Len(f.parts) : f.parts[i] # ".git"}

\* _fingerprint_source
fingerprint_source(src, cache, inside, language) ==
    sha256(<<language,
             {<<f.parts, f.mtime, f.size>> : f \in iter_source_files(src, cache, inside)}>>)

\* self.cache_dir / f'{language}-{fingerprint[:12]}'
target_dir_of(language, digest) == <<language, prefix12(digest)>>

\* target_dir.exists()
exists(cache, db_dir) == db_dir \in DOMAIN cache

\* shutil.rmtree(target_dir)
rmtree(cache, db_dir) == RemoveFile(cache, db_dir)

\* target_dir.mkdir(parents=True, exist_ok=True)
mkdir(cache, db_dir) ==
    IF exists(cache, db_dir) THEN cache ELSE WriteFile(cache, db_dir, {})

RECURSIVE calculate_directory_size(_)
\* _calculate_directory_size
calculate_directory_size(directory) ==
    IF directory = {} THEN 0
    ELSE LET f == CHOOSE g \in directory : TRUE
         IN  f.size + calculate_directory_size(directory \ {f})

\* _collect_metadata
collect_metadata(cache, db_dir, language, digest, now) ==
    [language |-> language,
     path |-> db_dir,
     source_root |-> SourceRoot,
     created_at |-> now,
     size_bytes |-> calculate_directory_size(cache[db_dir]),
     fingerprint |-> digest]

\* cache_database: the payload written to the manifest
manifest_payload(db) ==
    [language |-> db.language,
     path |-> str_path(db.path),
     source_root |-> str_path(db.source_root),
     created_at |-> isoformat(db.created_at),
     size_bytes |-> db.size_bytes,
     fingerprint |-> db.fingerprint]

\* cache_database: metadata_path.write_text(json.dumps(payload, indent=2))
cache_database(cache, db, now) ==
    LET payload == manifest_payload(db)
        manifest == File(<<METADATA_FILE_NAME>>, now,
                         Cardinality(DOMAIN payload), Some(payload))
        others == {f \in cache[db.path] : f.parts # <<METADATA_FILE_NAME>>}
    IN  WriteFile(cache, db.path, others \cup {manifest})

\* _load_metadata
load_metadata(cache, db_dir) ==
    IF ~exists(cache, db_dir) THEN None
    ELSE LET manifests == {f \in cache[db_dir] : f.parts = <<METADATA_FILE_NAME>>}
         IN  IF manifests = {} THEN None
             ELSE LET data == (CHOOSE f \in manifests : TRUE).text[1]
                  IN  Some([language |-> data.language,
                            path |-> Path(data.path),
                            source_root |-> Path(data.source_root),
                            created_at |-> fromisoformat(data.created_at),
                            size_bytes |-> data.size_bytes,
                            fingerprint |-> data.fingerprint])

RECURSIVE NewestFirst(_)
\* databases.sort(key=created_at, reverse=True)
NewestFirst(dbs) ==
    IF dbs = {} THEN <<>>
    ELSE LET newest == CHOOSE d \in dbs : \A e \in dbs : e.created_at <= d.created_at
         IN  <<newest>> \o NewestFirst(dbs \ {newest})

\* list_databases
list_databases(cache) ==
    NewestFirst({load_metadata(cache, d)[1] :
                     d \in {e \in DOMAIN cache : load_metadata(cache, e) # None}})

\* _discover_codeql: shutil.which('codeql'), or CodeQLUnavailableError
discover_codeql(which) ==
    IF which = None
    THEN [raised |-> Some("CodeQLUnavailableError"), location |-> None]
    ELSE [raised |-> None, location |-> which]

\* _ensure_codeql: the configured path, else the discovered one
ensure_codeql(configured, which) ==
    IF configured = None THEN discover_codeql(which)
    ELSE [raised |-> None, location |-> configured]

\* the mutant: a non-zero exit code is not an error
run_subprocess_raises_Never(returncode) == FALSE

\* _run_subprocess: process.returncode != 0
run_subprocess_raises(returncode) == returncode # 0

\* _run_subprocess: the message of the CodeQLManagerError
CommandFailed(returncode, stderr) ==
    [kind |-> "CodeQL command failed with exit code", code |-> returncode,
     stderr |-> stderr]

\* what the external database-creation command does: its exit code, the
\* files it leaves in the database directory and what it wrote to stderr
SubprocessOutcomes ==
    {[returncode |-> 0, files |-> {[parts |-> <<"db">>, size |-> 256]}, stderr |-> ""],
     [returncode |-> 2, files |-> {}, stderr |-> "boom"],
     [returncode |-> 2, files |-> {[parts |-> <<"db">>, size |-> 42]}, stderr |-> "boom"]}

\* the files the command left, stamped with the time of writing
Written(outcome, now) == {File(f.parts, now, f.size, None) : f \in outcome.files}

\* the source tree before the client touches it
InitialSource ==
    {File(<<"a.py">>, 0, 3, None), File(<<".git", "config">>, 0, 5, None)}

CodeQLIdle ==
    /\ codeql_path = None
    /\ which_codeql = None
    /\ cache_in_source = FALSE
    /\ source_files = {}
    /\ cache_dirs = EmptyFiles
    /\ ql_pc = "idle"
    /\ ql_call = None
    /\ ql_result = None
    /\ ql_now = 0
    /\ touches = 0
    /\ commands = <<>>
    /\ last_create = [l \in Languages |-> None]

Writers == {1, 2}

WritersIdle ==
    /\ writer_pc = [w \in Writers |-> "idle"]
    /\ writer_run = [w \in Writers |-> None]
    /\ writer_history = [w \in Writers |-> <<>>]
    /\ writer_written = [w \in Writers |-> 0]
    /\ writer_handle = [w \in Writers |-> "closed"]
    /\ writer_result = [w \in Writers |-> None]
    /\ overlapped = {}

GateIdle ==
    /\ gate_events = <<>>
    /\ gate_prev = None
    /\ gate_op = "idle"

Managers == {"a", "b"}

ManagersIdle ==
    /\ mg_inside = [m \in Managers |-> FALSE]
    /\ mg_fs = EmptyFiles
    /\ mg_alone = [m \in Managers |-> EmptyFiles]
    /\ mg_pc = [m \in Managers |-> "idle"]
    /\ mg_call = [m \in Managers |-> None]
    /\ mg_result = None
    /\ mg_now = 0
    /\ mg_ops = 0


\* TelemetryRun.duration_seconds
duration_seconds(run) == Max(run.completed_at - run.started_at, 0)

\* the mutant: a run counted successful when some event exited with 0
successful_SomeEvent(run) ==
    \E k \in 1..Len(run.events) : run.events[k].exit_code = 0

\* TelemetryRun.successful
successful(run) ==
    \A k \in 1..Len(run.events) : run.events[k].exit_code = 0

-----------------------------------------------------------------------------
(* execute_analysis_plan *)

\* one entry of the trace: a call of the runner (which is not told the tool),
\* or a call of a progress callback with its arguments
TraceEntry(kind, tool, command, exit_code, duration) ==
    [kind |-> kind, tool |-> tool, command |-> command,
     exit_code |-> exit_code, duration |-> duration]

\* the mutant: the event put in front of the list
AppendEvent_InFront(recorded, event) == <<event>> \o recorded

\* events.append(event)
AppendEvent(recorded, event) == Append(recorded, event)

\* the mutant: metadata not handed on to fingerprint_analysis
ExecutionFingerprint_NoMetadata(report, ps, metadata) ==
    fingerprint_analysis(report, ps, None)

\* fingerprint = fingerprint_analysis(report, materialised, metadata=metadata)
ExecutionFingerprint(report, ps, metadata) == fingerprint_analysis(report, ps, metadata)

EngineIdle ==
    /\ plans = <<>>
    /\ include_unready = FALSE
    /\ severity_filter = None
    /\ store_supplied = FALSE
    /\ callbacks_supplied = FALSE
    /\ time_source = "advancing"
    /\ pc = "idle"
    /\ fingerprint = None
    /\ normalised_filter = None
    /\ started_at = 0
    /\ plan_index = 0
    /\ steps_to_run = <<>>
    /\ step_index = 0
    /\ events = <<>>
    /\ notes = <<>>
    /\ returned = None
    /\ raised = None
    /\ ticks = 0
    /\ trace = <<>>
    /\ last_outcome = None
    /\ failures = 0
    /\ store_runs = EmptyRuns

FingerprintIdle ==
    /\ fp_report = Report
    /\ fp_plans = <<>>
    /\ fp_prev = None
    /\ fp_op = "idle"

\* the state at the call of execute_analysis_plan.  The progress callbacks are
\* supplied: without them the trace is the same with their entries left out.
EngineInit ==
    /\ plans \in PlanInputs
    /\ include_unready \in BOOLEAN
    /\ severity_filter \in FilterInputs
    /\ store_supplied = FALSE
    /\ callbacks_supplied = TRUE
    /\ time_source = "advancing"
    /\ pc = "call"
    /\ fingerprint = None
    /\ normalised_filter = None
    /\ started_at = 0
    /\ plan_index = 0
    /\ steps_to_run = <<>>
    /\ step_index = 0
    /\ events = <<>>
    /\ notes = <<>>
    /\ returned = None
    /\ raised = None
    /\ ticks = 0
    /\ trace = <<>>
    /\ last_outcome = None
    /\ failures = 0
    /\ store_runs = EmptyRuns

\* lines 569-580: the fingerprint, the start time, the normalised filter
Call ==
    /\ pc = "call"
    /\ fingerprint' = Some(ExecutionFingerprint(Report, plans, Metadata))
    /\ started_at' = TimeAt(ticks)
    /\ ticks' = ticks + 1
    /\ normalised_filter' = NormaliseFilter(severity_filter)
    /\ plan_index' = 1
    /\ pc' = "plan"
    /\ UNCHANGED <<plans, time_source, include_unready, severity_filter, store_supplied,
                   callbacks_supplied, steps_to_run, step_index, events, notes,
                   returned, raised, trace, last_outcome, failures, store_runs>>
    /\ UNCHANGED outsideEngine

\* lines 582-590: one turn of the loop over the plans, up to its inner loop
PreparePlan ==
    /\ pc = "plan"
    /\ plan_index <= Len(plans)
    /\ LET prepared == prepare_plan_steps(plans[plan_index], include_unready,
                                          normalised_filter)
       IN  /\ notes' = notes \o prepared[2]
           /\ steps_to_run' = prepared[1]
           /\ IF prepared[1] = <<>>
              THEN /\ plan_index' = plan_index + 1
                   /\ step_index' = 0
                   /\ pc' = "plan"
              ELSE /\ plan_index' = plan_index
                   /\ step_index' = 1
                   /\ pc' = "step"
    /\ UNCHANGED <<plans, time_source, include_unready, severity_filter, store_supplied,
                   callbacks_supplied, fingerprint, normalised_filter, started_at,
                   events, returned, raised, ticks, trace, last_outcome, failures,
                   store_runs>>
    /\ UNCHANGED outsideEngine

\* whether an outcome of the runner counts against MaxFailures
Failing(outcome) ==
    \/ outcome.raises
    \/ extract_exit_code(outcome.result) \notin {None, Some(0)}

\* the mutant: on_step_start invoked after the runner
TraceToRunner_StartAfterRunner(plan, step) ==
    trace
    \o <<TraceEntry("runner", "", step.command, 0, 0)>>
    \o (IF callbacks_supplied
        THEN <<TraceEntry("on_step_start", plan.tool, step.command, 0, 0)>>
        ELSE <<>>)

\* the trace up to and including the runner's call in _run_plan_step
TraceToRunner(plan, step) ==
    trace
    \o (IF callbacks_supplied
        THEN <<TraceEntry("on_step_start", plan.tool, step.command, 0, 0)>>
        ELSE <<>>)
    \o <<TraceEntry("runner", "", step.command, 0, 0)>>

\* _run_plan_step returning: lines 591-602 with 465-504
RunPlanStep(outcome) ==
    /\ pc = "step"
    /\ ~Propagates(outcome)
    /\ Failing(outcome) => failures < MaxFailures
    /\ LET plan == plans[plan_index]
           step == steps_to_run[step_index]
           step_started_at == TimeAt(ticks)
           invoked == invoke_runner(outcome)
           completed_at == TimeAt(ticks + 1)
           duration == Max(completed_at - step_started_at, 0)
           extracted == extract_exit_code(invoked[1])
       IN  /\ extracted # None
           /\ LET exit_code == extracted[1]
                  event == [tool |-> plan.tool,
                            command |-> step.command,
                            exit_code |-> exit_code,
                            duration_seconds |-> duration,
                            timestamp |-> completed_at,
                            metadata |-> [description |-> step.description,
                                          severity |-> step.severity,
                                          error |-> invoked[2]]]
              IN  /\ events' = AppendEvent(events, event)
                  /\ trace' = TraceToRunner(plan, step)
                        \o (IF callbacks_supplied
                            THEN <<TraceEntry("on_step_complete", plan.tool,
                                              step.command, exit_code, duration)>>
                            ELSE <<>>)
                  /\ notes' = notes
                        \o (IF invoked[2] # None
                            THEN <<Note("launch_failed", plan.tool, step.command, 0,
                                        invoked[2][1])>>
                            ELSE <<>>)
                        \o (IF exit_code # 0
                            THEN <<Note("exit_code", plan.tool, step.command,
                                        exit_code, "")>>
                            ELSE <<>>)
    /\ ticks' = ticks + 2
    /\ last_outcome' = Some(outcome)
    /\ failures' = IF Failing(outcome) THEN failures + 1 ELSE failures
    /\ IF step_index < Len(steps_to_run)
       THEN /\ step_index' = step_index + 1
            /\ plan_index' = plan_index
            /\ pc' = "step"
       ELSE /\ step_index' = 0
            /\ plan_index' = plan_index + 1
            /\ pc' = "plan"
    /\ UNCHANGED <<plans, time_source, include_unready, severity_filter, store_supplied,
                   callbacks_supplied, fingerprint, normalised_filter, started_at,
                   steps_to_run, returned, raised, store_runs>>
    /\ UNCHANGED outsideEngine

\* _run_plan_step raising TypeError out of _extract_exit_code (line 482)
RunPlanStepTypeError(outcome) ==
    /\ pc = "step"
    /\ ~Propagates(outcome)
    /\ extract_exit_code(invoke_runner(outcome)[1]) = None
    /\ raised' = Some("TypeError")
    /\ trace' = TraceToRunner(plans[plan_index], steps_to_run[step_index])
    /\ last_outcome' = Some(outcome)
    /\ ticks' = ticks + 2
    /\ pc' = "raised"
    /\ UNCHANGED <<plans, time_source, include_unready, severity_filter, store_supplied,
                   callbacks_supplied, fingerprint, normalised_filter, started_at,
                   plan_index, steps_to_run, step_index, events, notes, returned,
                   failures, store_runs>>
    /\ UNCHANGED outsideEngine

\* _run_plan_step left by an exception of the runner that _invoke_runner does
\* not catch (lines 452-454): after on_step_start and the first time_fn()
RunPlanStepRunnerError(outcome) ==
    /\ pc = "step"
    /\ Propagates(outcome)
    /\ raised' = Some(outcome.exception)
    /\ trace' = TraceToRunner(plans[plan_index], steps_to_run[step_index])
    /\ last_outcome' = Some(outcome)
    /\ ticks' = ticks + 1
    /\ pc' = "raised"
    /\ UNCHANGED <<plans, time_source, include_unready, severity_filter, store_supplied,
                   callbacks_supplied, fingerprint, normalised_filter, started_at,
                   plan_index, steps_to_run, step_index, events, notes, returned,
                   failures, store_runs>>
    /\ UNCHANGED outsideEngine

\* lines 604-615: the run built, persisted if a store was supplied, returned
Return(supplied) ==
    /\ pc = "plan"
    /\ plan_index > Len(plans)
    /\ LET completed_at == IF events # <<>> THEN events[Len(events)].timestamp
                           ELSE started_at
           run == [fingerprint |-> fingerprint[1],
                   project_root |-> Report.project_root,
                   started_at |-> started_at,
                   completed_at |-> completed_at,
                   events |-> events,
                   notes |-> notes]
       IN  /\ store_runs' = IF supplied THEN StorePersist(store_runs, run)
                            ELSE store_runs
           /\ returned' = Some(run)
    /\ store_supplied' = supplied
    /\ pc' = "done"
    /\ UNCHANGED <<plans, time_source, include_unready, severity_filter, callbacks_supplied,
                   fingerprint, normalised_filter, started_at, plan_index,
                   steps_to_run, step_index, events, notes, raised, ticks, trace,
                   last_outcome, failures>>
    /\ UNCHANGED outsideEngine

Init == EngineInit /\ FingerprintIdle /\ StoreIdle /\ CodeQLIdle /\ WritersIdle /\ GateIdle /\ ManagersIdle

Next ==
    \/ Call
    \/ PreparePlan
    \/ \E outcome \in RunnerOutcomes : RunPlanStep(outcome)
    \/ \E outcome \in RunnerOutcomes : RunPlanStepTypeError(outcome)
    \/ \E outcome \in RunnerOutcomes : RunPlanStepRunnerError(outcome)
    \/ \E supplied \in BOOLEAN : Return(supplied)

Spec == Init /\ [][Next]_vars

\* execute_analysis_plan called with a time source whose readings do not
\* advance: every plan is executed, no severity filter
ClockInit ==
    /\ plans \in PlanInputs
    /\ include_unready = TRUE
    /\ severity_filter = None
    /\ store_supplied = FALSE
    /\ callbacks_supplied = TRUE
    /\ time_source \in {"receding", "jittering"}
    /\ pc = "call"
    /\ fingerprint = None
    /\ normalised_filter = None
    /\ started_at = 0
    /\ plan_index = 0
    /\ steps_to_run = <<>>
    /\ step_index = 0
    /\ events = <<>>
    /\ notes = <<>>
    /\ returned = None
    /\ raised = None
    /\ ticks = 0
    /\ trace = <<>>
    /\ last_outcome = None
    /\ failures = 0
    /\ store_runs = EmptyRuns
    /\ FingerprintIdle
    /\ StoreIdle
    /\ CodeQLIdle
    /\ WritersIdle
    /\ GateIdle
    /\ ManagersIdle

ClockSpec == ClockInit /\ [][Next]_vars

-----------------------------------------------------------------------------
(* fingerprint_analysis applied to free inputs, which are then permuted or  *)
(* changed in one place                                                     *)

FpLanguageSummaries ==
    {[language |-> "Go", file_count |-> 1, sample_files |-> <<"main.go">>],
     [language |-> "Python", file_count |-> 1, sample_files |-> <<"src/app.py">>],
     [language |-> "Python", file_count |-> 2, sample_files |-> <<"src/app.py">>]}

FpToolStatuses ==
    {[name |-> "CodeQL", available |-> FALSE, location |-> None,
      hint |-> "Install the CodeQL CLI"],
     [name |-> "Semgrep", available |-> TRUE, location |-> Some("/usr/bin/semgrep"),
      hint |-> "Available at /usr/bin/semgrep"],
     [name |-> "Semgrep", available |-> FALSE, location |-> None,
      hint |-> "Install Semgrep"]}

FpCommands == {<<"semgrep", "scan", "--config=auto">>, <<"semgrep", "scan", "--config=p/ci">>}

FpDescriptions == {"Run Semgrep.", "Run Semgrep with the CI configuration."}

FpSeverities == {None, Some("low"), Some("high")}

\* the steps first drawn; the change operations reach the other values
FpSteps ==
    {[command |-> <<"semgrep", "scan", "--config=auto">>,
      description |-> "Run Semgrep.",
      severity |-> severity] : severity \in {None, Some("low")}}

FpPlans ==
    {[tool |-> tool, ready |-> TRUE, reason |-> "ready", steps |-> steps] :
        tool \in {"CodeQL", "Semgrep"}, steps \in SeqsUpTo(FpSteps, MaxSteps)}

Digest == fingerprint_analysis(fp_report, fp_plans, Metadata)

Permuted(seq, pi) == [i \in 1..Len(seq) |-> seq[pi[i]]]

\* either the report's collections are free, or the plans are
FingerprintInit ==
    /\ \/ /\ \E languages \in SeqsUpTo(FpLanguageSummaries, FpMaxItems),
                tool_statuses \in SeqsUpTo(FpToolStatuses, FpMaxItems) :
                fp_report = [project_root |-> "/repo",
                             languages |-> languages,
                             tool_statuses |-> tool_statuses]
          /\ fp_plans = <<>>
       \/ /\ fp_report = Report
          /\ fp_plans \in SeqsUpTo(FpPlans, FpMaxItems)
    /\ fp_prev = None
    /\ fp_op = "drawn"

PermuteLanguages ==
    /\ fp_op = "drawn"
    /\ \E pi \in Permutations(1..Len(fp_report.languages)) :
          fp_report' = [fp_report EXCEPT !.languages = Permuted(@, pi)]
    /\ fp_prev' = Some(Digest)
    /\ fp_op' = "permute_languages"
    /\ UNCHANGED fp_plans
    /\ UNCHANGED outsideFingerprint

PermuteToolStatuses ==
    /\ fp_op = "drawn"
    /\ \E pi \in Permutations(1..Len(fp_report.tool_statuses)) :
          fp_report' = [fp_report EXCEPT !.tool_statuses = Permuted(@, pi)]
    /\ fp_prev' = Some(Digest)
    /\ fp_op' = "permute_tool_statuses"
    /\ UNCHANGED fp_plans
    /\ UNCHANGED outsideFingerprint

PermutePlans ==
    /\ fp_op = "drawn"
    /\ \E pi \in Permutations(1..Len(fp_plans)) : fp_plans' = Permuted(fp_plans, pi)
    /\ fp_prev' = Some(Digest)
    /\ fp_op' = "permute_plans"
    /\ UNCHANGED fp_report
    /\ UNCHANGED outsideFingerprint

ChangeCommand ==
    /\ fp_op = "drawn"
    /\ \E i \in 1..Len(fp_plans) : \E j \in 1..Len(fp_plans[i].steps) :
          \E command \in FpCommands \ {fp_plans[i].steps[j].command} :
             fp_plans' = [fp_plans EXCEPT ![i].steps[j].command = command]
    /\ fp_prev' = Some(Digest)
    /\ fp_op' = "change_command"
    /\ UNCHANGED fp_report
    /\ UNCHANGED outsideFingerprint

ChangeDescription ==
    /\ fp_op = "drawn"
    /\ \E i \in 1..Len(fp_plans) : \E j \in 1..Len(fp_plans[i].steps) :
          \E description \in FpDescriptions \ {fp_plans[i].steps[j].description} :
             fp_plans' = [fp_plans EXCEPT ![i].steps[j].description = description]
    /\ fp_prev' = Some(Digest)
    /\ fp_op' = "change_description"
    /\ UNCHANGED fp_report
    /\ UNCHANGED outsideFingerprint

ChangeSeverity ==
    /\ fp_op = "drawn"
    /\ \E i \in 1..Len(fp_plans) : \E j \in 1..Len(fp_plans[i].steps) :
          \E severity \in FpSeverities \ {fp_plans[i].steps[j].severity} :
             fp_plans' = [fp_plans EXCEPT ![i].steps[j].severity = severity]
    /\ fp_prev' = Some(Digest)
    /\ fp_op' = "change_severity"
    /\ UNCHANGED fp_report
    /\ UNCHANGED outsideFingerprint

FingerprintNext ==
    \/ PermuteLanguages
    \/ PermuteToolStatuses
    \/ PermutePlans
    \/ ChangeCommand
    \/ ChangeDescription
    \/ ChangeSeverity

FingerprintStart == FingerprintInit /\ EngineIdle /\ StoreIdle /\ CodeQLIdle /\ WritersIdle /\ GateIdle /\ ManagersIdle

FingerprintSpec == FingerprintStart /\ [][FingerprintNext]_vars

-----------------------------------------------------------------------------
(* A client of one telemetry store: it persists runs and queries, and the  *)
(* process may die in the middle of JSONLTelemetryStore.persist            *)

MaxPersists == 2

MaxHistory == 2

\* metadata of the event of a run the client persists
EventMetadataInputs == {None, Some({}), Some({<<"description", "step 1">>})}

\* the n-th run of the client: one event, told apart by its times and note
StoreRun(digest, n, metadata) ==
    [fingerprint |-> digest,
     project_root |-> "/repo",
     started_at |-> 10 * n,
     completed_at |-> 10 * n + 1,
     events |-> <<[tool |-> "Semgrep",
                   command |-> <<"semgrep", "scan">>,
                   exit_code |-> 0,
                   duration_seconds |-> 1,
                   timestamp |-> 10 * n + 1,
                   metadata |-> metadata]>>,
     notes |-> <<ToString(n)>>]

\* the runs the client may persist as its n-th
StoreRunInputs(n) ==
    {StoreRun("a", n, metadata) : metadata \in EventMetadataInputs}
    \cup {StoreRun("b", n, Some({<<"description", "step 1">>}))}

\* a file found in the directory: at each place a run persisted earlier or a
\* line of another kind
FileWithKinds(kinds) ==
    [i \in 1..Len(kinds) |->
        IF kinds[i] = "run"
        THEN json_dump(run_to_payload(
                 StoreRun("a", 0 - i, Some({<<"description", "earlier">>}))))
        ELSE CorruptLine(kinds[i])]

\* an empty file, files of runs, and files where a line of each other kind
\* stands before or after a run
InitialContents ==
    {FileWithKinds(kinds) :
        kinds \in {<<>>, <<"run">>, <<"run", "run">>,
                   <<"run", "garbage">>, <<"blank", "run">>,
                   <<"empty_object", "run">>, <<"run", "array">>,
                   <<"garbage", "empty_object">>}}

HistoryLimits == {None} \cup {Some(n) : n \in 0..MaxHistory}

\* the runs of the lines of a file that are runs
RECURSIVE RunsIn(_)
RunsIn(content) ==
    IF content = <<>> THEN <<>>
    ELSE (IF Head(content).kind = "run"
          THEN <<run_from_payload(Head(content).payload[1])>> ELSE <<>>)
         \o RunsIn(Tail(content))

\* JSONLTelemetryStore.__init__ on a directory that holds a file for "a" or
\* none, or InMemoryTelemetryStore.__init__
StoreInit ==
    /\ \/ /\ store_kind = "memory"
          /\ max_history = None
          /\ files = EmptyFiles
          /\ persisted = [f \in Fingerprints |-> <<>>]
       \/ /\ store_kind = "jsonl"
          /\ max_history \in HistoryLimits
          /\ \/ /\ files = EmptyFiles
                /\ persisted = [f \in Fingerprints |-> <<>>]
             \/ \E content \in InitialContents :
                   /\ files = WriteFile(EmptyFiles, path_for("a"), content)
                   /\ persisted = [f \in Fingerprints |->
                                     IF f = "a" THEN RunsIn(content) ELSE <<>>]
    /\ st_pc = "idle"
    /\ st_run = None
    /\ st_history = <<>>
    /\ st_written = 0
    /\ st_result = None
    /\ persists = 0

Result(op, digest, value, exception) ==
    [op |-> op, fingerprint |-> digest, value |-> value, raised |-> exception]

\* InMemoryTelemetryStore.persist
MemPersist(run) ==
    /\ store_kind = "memory"
    /\ persists < MaxPersists
    /\ store_runs' = StorePersist(store_runs, run)
    /\ persisted' = [persisted EXCEPT ![run.fingerprint] = Append(@, run)]
    /\ persists' = persists + 1
    /\ st_result' = Some(Result("persist", run.fingerprint, <<>>, None))
    /\ UNCHANGED <<store_kind, max_history, files, st_pc, st_run, st_history,
                   st_written>>
    /\ UNCHANGED outsideStore

\* InMemoryTelemetryStore.latest
MemLatest(digest) ==
    /\ store_kind = "memory"
    /\ LET got == defaultdict_get(store_runs, digest)
       IN  /\ store_runs' = got.runs
           /\ st_result' = Some(Result("latest", digest,
                                       IF got.value = None \/ got.value = Some(<<>>)
                                       THEN None
                                       ELSE Some(got.value[1][Len(got.value[1])]),
                                       None))
    /\ UNCHANGED <<store_kind, max_history, files, st_pc, st_run, st_history,
                   st_written, persists, persisted>>
    /\ UNCHANGED outsideStore

\* InMemoryTelemetryStore.history
MemHistory(digest) ==
    /\ store_kind = "memory"
    /\ LET got == defaultdict_get(store_runs, digest)
       IN  /\ store_runs' = got.runs
           /\ st_result' = Some(Result("history", digest,
                                       IF got.value = None THEN <<>> ELSE got.value[1],
                                       None))
    /\ UNCHANGED <<store_kind, max_history, files, st_pc, st_run, st_history,
                   st_written, persists, persisted>>
    /\ UNCHANGED outsideStore

\* JSONLTelemetryStore.persist, lines 278-281: the history read, the run
\* appended, the list cut; an exception out of _read_runs leaves persist
PersistRead(run) ==
    /\ store_kind = "jsonl"
    /\ st_pc = "idle"
    /\ persists < MaxPersists
    /\ persists' = persists + 1
    /\ LET read == read_runs(files, run.fingerprint)
       IN  IF read.raised # None
           THEN /\ st_result' = Some(Result("persist", run.fingerprint, <<>>,
                                            read.raised))
                /\ UNCHANGED <<st_pc, st_run, st_history>>
           ELSE /\ st_result' = None
                /\ st_pc' = "open"
                /\ st_run' = Some(run)
                /\ st_history' = truncate(Append(read.runs, run), max_history)
    /\ UNCHANGED <<store_kind, max_history, files, st_written, persisted, store_runs>>
    /\ UNCHANGED outsideStore

\* _write_runs, line 271: the temporary file opened for writing
PersistOpenTemp ==
    /\ st_pc = "open"
    /\ files' = WriteFile(files, temp_path(st_run[1].fingerprint), <<>>)
    /\ st_written' = 0
    /\ st_pc' = "write"
    /\ UNCHANGED <<store_kind, max_history, st_run, st_history, st_result,
                   persists, persisted, store_runs>>
    /\ UNCHANGED outsideStore

\* _write_runs, lines 272-274: one more run written to the temporary file
PersistWriteLine ==
    /\ st_pc = "write"
    /\ st_written < Len(st_history)
    /\ LET temp == temp_path(st_run[1].fingerprint)
       IN  files' = WriteFile(files, temp,
                        Append(files[temp],
                               json_dump(run_to_payload(st_history[st_written + 1]))))
    /\ st_written' = st_written + 1
    /\ UNCHANGED <<store_kind, max_history, st_pc, st_run, st_history, st_result,
                   persists, persisted, store_runs>>
    /\ UNCHANGED outsideStore

\* _write_runs, line 275: the temporary file renamed over the file; persist returns
PersistReplace ==
    /\ st_pc = "write"
    /\ st_written = Len(st_history)
    /\ LET digest == st_run[1].fingerprint
       IN  /\ files' = ReplaceFile(files, temp_path(digest), path_for(digest))
           /\ persisted' = [persisted EXCEPT ![digest] = Append(@, st_run[1])]
           /\ st_result' = Some(Result("persist", digest, <<>>, None))
    /\ st_pc' = "idle"
    /\ st_run' = None
    /\ st_history' = <<>>
    /\ st_written' = 0
    /\ UNCHANGED <<store_kind, max_history, persists, store_runs>>
    /\ UNCHANGED outsideStore

\* the process dies within _write_runs; the files stay as they are
PersistCrash ==
    /\ st_pc \in {"open", "write"}
    /\ st_pc' = "idle"
    /\ st_run' = None
    /\ st_history' = <<>>
    /\ st_written' = 0
    /\ st_result' = None
    /\ UNCHANGED <<store_kind, max_history, files, persists, persisted, store_runs>>
    /\ UNCHANGED outsideStore

\* JSONLTelemetryStore.latest, called by a reader at any time
JsonlLatest(digest) ==
    /\ store_kind = "jsonl"
    /\ LET read == read_runs(files, digest)
       IN  st_result' = Some(Result("latest", digest,
                                    IF read.runs = <<>> THEN None
                                    ELSE Some(read.runs[Len(read.runs)]),
                                    read.raised))
    /\ UNCHANGED <<store_kind, max_history, files, st_pc, st_run, st_history,
                   st_written, persists, persisted, store_runs>>
    /\ UNCHANGED outsideStore

\* JSONLTelemetryStore.history, called by a reader at any time
JsonlHistory(digest) ==
    /\ store_kind = "jsonl"
    /\ LET read == read_runs(files, digest)
       IN  st_result' = Some(Result("history", digest, read.runs, read.raised))
    /\ UNCHANGED <<store_kind, max_history, files, st_pc, st_run, st_history,
                   st_written, persists, persisted, store_runs>>
    /\ UNCHANGED outsideStore

StoreNext ==
    \/ \E run \in StoreRunInputs(persists + 1) : MemPersist(run)
    \/ \E digest \in Fingerprints : MemLatest(digest)
    \/ \E digest \in Fingerprints : MemHistory(digest)
    \/ \E run \in StoreRunInputs(persists + 1) : PersistRead(run)
    \/ PersistOpenTemp
    \/ PersistWriteLine
    \/ PersistReplace
    \/ PersistCrash
    \/ \E digest \in Fingerprints : JsonlLatest(digest)
    \/ \E digest \in Fingerprints : JsonlHistory(digest)

\* the engine's locals idle; the in-memory store empty
StoreStart ==
    /\ StoreInit
    /\ EngineIdle
    /\ FingerprintIdle
    /\ CodeQLIdle
    /\ WritersIdle
    /\ GateIdle
    /\ ManagersIdle

StoreSpec == StoreStart /\ [][StoreNext]_vars

-----------------------------------------------------------------------------
(* A client that holds an InMemoryTelemetryStore and a JSONLTelemetryStore  *)
(* without a history limit over an empty directory, and makes every call   *)
(* on both.                                                                *)

\* JSONLTelemetryStore.persist from call to return: the directory afterwards
jsonl_persist(fs, run, limit) ==
    LET digest == run.fingerprint
        history == truncate(Append(read_runs(fs, digest).runs, run), limit)
        lines == [i \in 1..Len(history) |-> json_dump(run_to_payload(history[i]))]
    IN  ReplaceFile(WriteFile(fs, temp_path(digest), lines),
                    temp_path(digest), path_for(digest))

\* the runs the client may persist as its n-th
PairRunInputs(n) ==
    {StoreRun(digest, n, metadata) :
         digest \in Fingerprints, metadata \in EventMetadataInputs}

PairInit ==
    /\ store_kind = "both"
    /\ max_history = None
    /\ files = EmptyFiles
    /\ persisted = [f \in Fingerprints |-> <<>>]
    /\ st_pc = "idle"
    /\ st_run = None
    /\ st_history = <<>>
    /\ st_written = 0
    /\ st_result = None
    /\ persists = 0

\* persist(run) on both stores
PairPersist(run) ==
    /\ store_kind = "both"
    /\ persists < MaxPersists
    /\ store_runs' = StorePersist(store_runs, run)
    /\ files' = jsonl_persist(files, run, max_history)
    /\ persisted' = [persisted EXCEPT ![run.fingerprint] = Append(@, run)]
    /\ persists' = persists + 1
    /\ st_result' = Some(Result("persist", run.fingerprint, <<>>, None))
    /\ UNCHANGED <<store_kind, max_history, st_pc, st_run, st_history, st_written>>
    /\ UNCHANGED outsideStore

\* latest(digest) on both stores: <<the in-memory store's, the file store's>>
PairLatest(digest) ==
    /\ store_kind = "both"
    /\ LET read == read_runs(files, digest)
       IN  st_result' = Some(Result("latest", digest,
                                    <<StoreLatest(store_runs, digest),
                                      IF read.runs = <<>> THEN None
                                      ELSE Some(read.runs[Len(read.runs)])>>,
                                    read.raised))
    /\ UNCHANGED <<store_kind, max_history, files, st_pc, st_run, st_history,
                   st_written, persists, persisted, store_runs>>
    /\ UNCHANGED outsideStore

\* history(digest) on both stores: <<the in-memory store's, the file store's>>
PairHistory(digest) ==
    /\ store_kind = "both"
    /\ LET read == read_runs(files, digest)
       IN  st_result' = Some(Result("history", digest,
                                    <<StoreHistory(store_runs, digest), read.runs>>,
                                    read.raised))
    /\ UNCHANGED <<store_kind, max_history, files, st_pc, st_run, st_history,
                   st_written, persists, persisted, store_runs>>
    /\ UNCHANGED outsideStore

PairNext ==
    \/ \E run \in PairRunInputs(persists + 1) : PairPersist(run)
    \/ \E digest \in Fingerprints : PairLatest(digest)
    \/ \E digest \in Fingerprints : PairHistory(digest)

PairStart ==
    /\ PairInit
    /\ EngineIdle
    /\ FingerprintIdle
    /\ CodeQLIdle
    /\ WritersIdle
    /\ GateIdle
    /\ ManagersIdle

PairSpec == PairStart /\ [][PairNext]_vars

-----------------------------------------------------------------------------
(* Two writers, each a JSONLTelemetryStore without a history limit over    *)
(* the same directory, persist without coordination.  Every step of        *)
(* persist is a step of its own.  A file opened for writing is the file    *)
(* itself, whatever its name becomes: a writer's handle follows the file   *)
(* through a rename by the other writer ("temp", then "file"), and is      *)
(* "unlinked" once the file was replaced.  Writes go to the position of    *)
(* the handle, counted in lines.                                           *)

\* the runs a writer may persist as the n-th of the two writers' runs
WriterRunInputs(n) ==
    {StoreRun(digest, n, Some({<<"description", "step 1">>})) : digest \in Fingerprints}

WritersInit ==
    /\ store_kind = "writers"
    /\ max_history = None
    /\ files = EmptyFiles
    /\ persisted = [f \in Fingerprints |-> <<>>]
    /\ st_pc = "idle"
    /\ st_run = None
    /\ st_history = <<>>
    /\ st_written = 0
    /\ st_result = None
    /\ persists = 0
    /\ WritersIdle

\* handle.write at line position k of a file: a position past the end, left
\* by a truncation, is reached over a hole that reads as a line of garbage
WriteAt(content, k, line) ==
    [i \in 1..(IF k > Len(content) THEN k ELSE Len(content)) |->
        IF i = k THEN line
        ELSE IF i <= Len(content) THEN content[i]
        ELSE CorruptLine("garbage")]

\* another writer is within persist for the same fingerprint
Overlaps(w, digest) ==
    \E v \in Writers \ {w} :
        writer_pc[v] # "idle" /\ writer_run[v][1].fingerprint = digest

\* persist, lines 278-281: the history read, the run appended
WriterRead(w, run) ==
    /\ store_kind = "writers"
    /\ writer_pc[w] = "idle"
    /\ persists < MaxPersists
    /\ persists' = persists + 1
    /\ LET read == read_runs(files, run.fingerprint)
       IN  IF read.raised # None
           THEN /\ writer_result' = [writer_result EXCEPT ![w] =
                       Some(Result("persist", run.fingerprint, <<>>, read.raised))]
                /\ UNCHANGED <<writer_pc, writer_run, writer_history>>
           ELSE /\ writer_result' = [writer_result EXCEPT ![w] = None]
                /\ writer_pc' = [writer_pc EXCEPT ![w] = "open"]
                /\ writer_run' = [writer_run EXCEPT ![w] = Some(run)]
                /\ writer_history' = [writer_history EXCEPT ![w] =
                       truncate(Append(read.runs, run), max_history)]
    /\ overlapped' = IF Overlaps(w, run.fingerprint)
                     THEN overlapped \cup {run.fingerprint} ELSE overlapped
    /\ UNCHANGED <<writer_written, writer_handle>>
    /\ UNCHANGED <<store_kind, max_history, files, st_pc, st_run, st_history,
                   st_written, st_result, persisted>>
    /\ UNCHANGED outsideWriters

\* _write_runs, line 271: the temporary file created, or truncated if there
WriterOpenTemp(w) ==
    /\ writer_pc[w] = "open"
    /\ files' = WriteFile(files, temp_path(writer_run[w][1].fingerprint), <<>>)
    /\ writer_handle' = [writer_handle EXCEPT ![w] = "temp"]
    /\ writer_written' = [writer_written EXCEPT ![w] = 0]
    /\ writer_pc' = [writer_pc EXCEPT ![w] = "write"]
    /\ UNCHANGED <<writer_run, writer_history, writer_result, overlapped>>
    /\ UNCHANGED <<store_kind, max_history, st_pc, st_run, st_history,
                   st_written, st_result, persists, persisted>>
    /\ UNCHANGED outsideWriters

\* _write_runs, lines 272-274: one more line written through the handle
WriterWriteLine(w) ==
    /\ writer_pc[w] = "write"
    /\ writer_written[w] < Len(writer_history[w])
    /\ LET digest == writer_run[w][1].fingerprint
           k == writer_written[w] + 1
           line == json_dump(run_to_payload(writer_history[w][k]))
           path == IF writer_handle[w] = "temp" THEN temp_path(digest)
                   ELSE path_for(digest)
       IN  files' = IF writer_handle[w] = "unlinked" THEN files
                    ELSE WriteFile(files, path, WriteAt(files[path], k, line))
    /\ writer_written' = [writer_written EXCEPT ![w] = @ + 1]
    /\ UNCHANGED <<writer_pc, writer_run, writer_history, writer_handle,
                   writer_result, overlapped>>
    /\ UNCHANGED <<store_kind, max_history, st_pc, st_run, st_history,
                   st_written, st_result, persists, persisted>>
    /\ UNCHANGED outsideWriters

\* _write_runs, line 275: the temporary file renamed over the file and
\* persist returns, or the temporary file is gone and replace raises
WriterReplace(w) ==
    /\ writer_pc[w] = "write"
    /\ writer_written[w] = Len(writer_history[w])
    /\ LET digest == writer_run[w][1].fingerprint
           same(v) == v # w /\ writer_pc[v] = "write"
                             /\ writer_run[v][1].fingerprint = digest
       IN  IF temp_path(digest) \in DOMAIN files
           THEN /\ files' = ReplaceFile(files, temp_path(digest), path_for(digest))
                /\ persisted' = [persisted EXCEPT ![digest] = Append(@, writer_run[w][1])]
                /\ writer_result' = [writer_result EXCEPT ![w] =
                       Some(Result("persist", digest, <<>>, None))]
                /\ writer_handle' =
                       [v \in Writers |->
                           IF v = w THEN "closed"
                           ELSE IF same(v) /\ writer_handle[v] = "temp" THEN "file"
                           ELSE IF same(v) /\ writer_handle[v] = "file" THEN "unlinked"
                           ELSE writer_handle[v]]
           ELSE /\ writer_result' = [writer_result EXCEPT ![w] =
                       Some(Result("persist", digest, <<>>, Some("FileNotFoundError")))]
                /\ writer_handle' = [writer_handle EXCEPT ![w] = "closed"]
                /\ UNCHANGED <<files, persisted>>
    /\ writer_pc' = [writer_pc EXCEPT ![w] = "idle"]
    /\ writer_run' = [writer_run EXCEPT ![w] = None]
    /\ writer_history' = [writer_history EXCEPT ![w] = <<>>]
    /\ writer_written' = [writer_written EXCEPT ![w] = 0]
    /\ UNCHANGED overlapped
    /\ UNCHANGED <<store_kind, max_history, st_pc, st_run, st_history,
                   st_written, st_result, persists>>
    /\ UNCHANGED outsideWriters

WritersNext ==
    \/ \E w \in Writers : \E run \in WriterRunInputs(persists + 1) : WriterRead(w, run)
    \/ \E w \in Writers : WriterOpenTemp(w)
    \/ \E w \in Writers : WriterWriteLine(w)
    \/ \E w \in Writers : WriterReplace(w)

WritersStart ==
    /\ WritersInit
    /\ EngineIdle
    /\ FingerprintIdle
    /\ CodeQLIdle
    /\ GateIdle
    /\ ManagersIdle

WritersSpec == WritersStart /\ [][WritersNext]_vars

-----------------------------------------------------------------------------
(* A client of one cache directory.  It constructs CodeQLManager instances *)
(* over the directory, calls create_database and list_databases, and       *)
(* changes files of the source tree between calls (a change before the     *)
(* first call is a different tree to start from, and is left out).  The    *)
(* PATH is the same throughout.  create_database runs up to its await in   *)
(* one step and from the exit of the process to its return in another.     *)

ConfiguredPaths == {None, Some("/opt/codeql/codeql")}

WhichResults == {None, Some("/usr/bin/codeql")}

CodeQLInit ==
    /\ codeql_path \in ConfiguredPaths
    /\ which_codeql \in WhichResults
    /\ cache_in_source \in BOOLEAN
    /\ source_files = InitialSource
    /\ cache_dirs = EmptyFiles
    /\ ql_pc = "idle"
    /\ ql_call = None
    /\ ql_result = None
    /\ ql_now = 0
    /\ touches = 0
    /\ commands = <<>>
    /\ last_create = [l \in Languages |-> None]

QlResult(op, value, exception) == [op |-> op, value |-> value, raised |-> exception]

CallsMade == IF ql_call = None THEN 0 ELSE ql_call[1].n

\* create_database, lines 101-103: the fingerprint and the target directory,
\* with what force does at lines 104 and 109: the call loads the manifest
\* of a directory that exists, or removes the directory
CallOf(language, force) ==
    LET digest == fingerprint_source(source_files, cache_dirs, cache_in_source, language)
    IN  [n |-> CallsMade + 1,
         language |-> language,
         fingerprint |-> digest,
         target_dir |-> target_dir_of(language, digest),
         removes |-> force /\ exists(cache_dirs, target_dir_of(language, digest)),
         loads |-> ~force /\ exists(cache_dirs, target_dir_of(language, digest)),
         before |-> cache_dirs]

\* create_database, lines 104-106: the manifest is loaded and is there
CacheHit(call) ==
    /\ call.loads
    /\ load_metadata(cache_dirs, call.target_dir) # None

\* create_database, lines 109-112: the cache after rmtree and mkdir
Prepared(call) ==
    mkdir(IF call.removes
          THEN rmtree(cache_dirs, call.target_dir)
          ELSE cache_dirs,
          call.target_dir)

\* how a create_database call ended, for the calls that follow it
Ended(returncode, database) ==
    Some([source |-> source_files, returncode |-> returncode, database |-> database])

\* create_database returns the cached metadata
CreateCached(language, force) ==
    /\ ql_pc = "idle"
    /\ CallsMade < MaxCreates
    /\ LET call == CallOf(language, force)
           metadata == load_metadata(cache_dirs, call.target_dir)
       IN  /\ CacheHit(call)
           /\ ql_call' = Some(call)
           /\ ql_result' = Some(QlResult("create_database", metadata, None))
           /\ last_create' = [last_create EXCEPT ![language] = Ended(None, metadata)]
    /\ UNCHANGED <<codeql_path, which_codeql, cache_in_source, source_files,
                   cache_dirs, ql_pc, touches, commands, ql_now>>
    /\ UNCHANGED outsideCodeQL

\* create_database prepares the directory and finds no codeql binary
CreateUnavailable(language, force) ==
    /\ ql_pc = "idle"
    /\ CallsMade < MaxCreates
    /\ LET call == CallOf(language, force)
           codeql == ensure_codeql(codeql_path, which_codeql)
       IN  /\ ~CacheHit(call)
           /\ codeql.raised # None
           /\ cache_dirs' = Prepared(call)
           /\ ql_call' = Some(call)
           /\ ql_result' = Some(QlResult("create_database", None, codeql.raised))
           /\ last_create' = [last_create EXCEPT ![language] = None]
    /\ UNCHANGED <<codeql_path, which_codeql, cache_in_source, source_files,
                   ql_pc, touches, commands, ql_now>>
    /\ UNCHANGED outsideCodeQL

\* create_database prepares the directory and starts the external command
CreateLaunch(language, force) ==
    /\ ql_pc = "idle"
    /\ CallsMade < MaxCreates
    /\ LET call == CallOf(language, force)
           codeql == ensure_codeql(codeql_path, which_codeql)
       IN  /\ ~CacheHit(call)
           /\ codeql.raised = None
           /\ codeql_path' = codeql.location
           /\ cache_dirs' = Prepared(call)
           /\ ql_call' = Some(call)
           /\ commands' = Append(commands,
                                 [codeql |-> codeql.location[1],
                                  target_dir |-> call.target_dir,
                                  language |-> language,
                                  source_root |-> SourceRoot,
                                  returncode |-> None])
    /\ ql_pc' = "running"
    /\ ql_result' = None
    /\ UNCHANGED <<which_codeql, cache_in_source, source_files, touches,
                   last_create, ql_now>>
    /\ UNCHANGED outsideCodeQL

\* the external command exits: _run_subprocess raises, or create_database
\* collects the metadata, writes the manifest and returns
CreateComplete(outcome) ==
    /\ ql_pc = "running"
    /\ LET call == ql_call[1]
           written == WriteFile(cache_dirs, call.target_dir, Written(outcome, ql_now))
           database == collect_metadata(written, call.target_dir, call.language,
                                        call.fingerprint, ql_now)
       IN  IF run_subprocess_raises(outcome.returncode)
           THEN /\ cache_dirs' = written
                /\ ql_result' = Some([op |-> "create_database",
                                      value |-> None,
                                      raised |-> Some("CodeQLManagerError"),
                                      message |-> CommandFailed(outcome.returncode,
                                                                outcome.stderr)])
                /\ last_create' = [last_create EXCEPT ![call.language] =
                                       Ended(Some(outcome.returncode), None)]
           ELSE /\ cache_dirs' = cache_database(written, database, ql_now)
                /\ ql_result' = Some(QlResult("create_database", Some(database), None))
                /\ last_create' = [last_create EXCEPT ![call.language] =
                                       Ended(Some(outcome.returncode), Some(database))]
    /\ commands' = [commands EXCEPT ![Len(commands)].returncode = Some(outcome.returncode)]
    /\ ql_pc' = "idle"
    /\ ql_now' = ql_now + 1
    /\ UNCHANGED <<codeql_path, which_codeql, cache_in_source, source_files,
                   ql_call, touches>>
    /\ UNCHANGED outsideCodeQL

\* list_databases
ListDatabases ==
    /\ ql_pc = "idle"
    /\ ql_result' = Some(QlResult("list_databases", list_databases(cache_dirs), None))
    /\ UNCHANGED <<codeql_path, which_codeql, cache_in_source, source_files,
                   cache_dirs, ql_pc, ql_call, ql_now, touches, commands,
                   last_create>>
    /\ UNCHANGED outsideCodeQL

\* a file of the source tree is rewritten
TouchSource(file) ==
    /\ ql_pc = "idle"
    /\ touches < MaxTouches /\ ql_call # None
    /\ file \in source_files
    /\ source_files' = (source_files \ {file}) \cup
                           {File(file.parts, ql_now + 1, file.size, file.text)}
    /\ ql_now' = ql_now + 1
    /\ touches' = touches + 1
    /\ UNCHANGED <<codeql_path, which_codeql, cache_in_source, cache_dirs,
                   ql_pc, ql_call, ql_result, commands, last_create>>
    /\ UNCHANGED outsideCodeQL

\* CodeQLManager(codeql_path=path, cache_dir=...): a new manager over the
\* same cache directory, which exists already
Construct(path) ==
    /\ ql_pc = "idle"
    /\ codeql_path # path
    /\ codeql_path' = path
    /\ UNCHANGED <<which_codeql, cache_in_source, source_files, cache_dirs,
                   ql_pc, ql_call, ql_result, ql_now, touches, commands,
                   last_create>>
    /\ UNCHANGED outsideCodeQL

\* create_database up to its return, its raise or its await
CreateCall(language, force) ==
    \/ CreateCached(language, force)
    \/ CreateUnavailable(language, force)
    \/ CreateLaunch(language, force)

CodeQLNext ==
    \/ \E language \in Languages, force \in BOOLEAN : CreateCached(language, force)
    \/ \E language \in Languages, force \in BOOLEAN : CreateUnavailable(language, force)
    \/ \E language \in Languages, force \in BOOLEAN : CreateLaunch(language, force)
    \/ \E outcome \in SubprocessOutcomes : CreateComplete(outcome)
    \/ ListDatabases
    \/ \E file \in source_files : TouchSource(file)
    \/ \E path \in ConfiguredPaths : Construct(path)

CodeQLStart ==
    /\ CodeQLInit
    /\ EngineIdle
    /\ FingerprintIdle
    /\ StoreIdle
    /\ WritersIdle
    /\ GateIdle
    /\ ManagersIdle

CodeQLSpec == CodeQLStart /\ [][CodeQLNext]_vars

-----------------------------------------------------------------------------
(* The severity gate of the run summary (src/emperator/cli.py), applied to  *)
(* the events of one tool.  A mapping is a set of <<key, value>> pairs; the *)
(* counts dict is the sequence of its <<level, count>> items in insertion   *)
(* order.                                                                   *)

\* events of one tool
GateMaxEvents == 3

SEVERITY_ORDER == <<"info", "low", "medium", "high", "critical">>

\* _SEVERITY_RANK.get(level): ranks count from 0
SEVERITY_RANK(level) ==
    IF \E i \in 1..Len(SEVERITY_ORDER) : SEVERITY_ORDER[i] = level
    THEN Some((CHOOSE i \in 1..Len(SEVERITY_ORDER) : SEVERITY_ORDER[i] = level) - 1)
    ELSE None

\* _SEVERITY_RANK.get(level, -1)
SeverityRankOr(level, default) ==
    IF SEVERITY_RANK(level) = None THEN default ELSE SEVERITY_RANK(level)[1]

\* metadata.get(key)
MappingGet(mapping, key) ==
    IF \E item \in mapping : item[1] = key
    THEN Some((CHOOSE item \in mapping : item[1] = key)[2])
    ELSE None

\* counts[level] = counts.get(level, 0) + 1
CountLevel(counts, level) ==
    IF \E i \in 1..Len(counts) : counts[i][1] = level
    THEN [i \in 1..Len(counts) |->
             IF counts[i][1] = level THEN <<level, counts[i][2] + 1>> ELSE counts[i]]
    ELSE Append(counts, <<level, 1>>)

\* the body of the loop of _summarise_severities after the count: an unknown
\* label becomes the highest unconditionally, a known one when it outranks
\* the highest so far (an unknown highest ranks -1)
HighestAfter(highest, level) ==
    IF SEVERITY_RANK(level) = None THEN Some(level)
    ELSE IF highest = None \/ SeverityRankOr(highest[1], -1) < SEVERITY_RANK(level)[1]
         THEN Some(level)
         ELSE highest

RECURSIVE SeverityLoop(_, _, _)
\* the for-loop of _summarise_severities over the events left
SeverityLoop(tool_events, counts, highest) ==
    IF tool_events = <<>> THEN [counts |-> counts, highest |-> highest]
    ELSE LET metadata == Head(tool_events).metadata
             severity == IF metadata = None THEN None
                         ELSE MappingGet(metadata[1], "severity")
             rest == Tail(tool_events)
         IN  IF metadata = None \/ severity = None \/ severity = Some("")
             THEN SeverityLoop(rest, counts, highest)
             ELSE LET level == Lower(severity[1])
                  IN  SeverityLoop(rest, CountLevel(counts, level),
                                   HighestAfter(highest, level))

\* _summarise_severities: the display is the sequence of its parts, each a
\* level and, when it is greater than one, its count
summarise_severities(tool_events) ==
    LET loop == SeverityLoop(tool_events, <<>>, None)
        levels == [i \in 1..Len(loop.counts) |-> loop.counts[i][1]]
        count == [level \in Range(levels) |->
                     (CHOOSE item \in Range(loop.counts) : item[1] = level)[2]]
        ordered_levels ==
            sorted(levels, [level \in Range(levels) |-> 0 - SeverityRankOr(level, -1)])
    IN  IF loop.counts = <<>> THEN [display |-> None, highest |-> None]
        ELSE [display |->
                 Some([i \in 1..Len(ordered_levels) |->
                          [level |-> ordered_levels[i],
                           count |-> IF count[ordered_levels[i]] > 1
                                     THEN Some(count[ordered_levels[i]])
                                     ELSE None]]),
              highest |-> loop.highest]

\* _severity_gate_status
severity_gate_status(tool, highest) ==
    IF highest = None THEN [badge |-> "PASS", note |-> None]
    ELSE LET level == Lower(highest[1])
             rank == SEVERITY_RANK(level)
         IN  IF rank = None
             THEN [badge |-> "REVIEW",
                   note |-> Some([kind |-> "unknown severity", tool |-> tool,
                                  severity |-> highest[1]])]
             ELSE IF rank[1] >= SEVERITY_RANK("high")[1]
             THEN [badge |-> "BLOCK",
                   note |-> Some([kind |-> "blocks progression", tool |-> tool,
                                  severity |-> level])]
             ELSE IF rank[1] >= SEVERITY_RANK("medium")[1]
             THEN [badge |-> "REVIEW",
                   note |-> Some([kind |-> "requires manual review", tool |-> tool,
                                  severity |-> level])]
             ELSE [badge |-> "PASS", note |-> None]

\* one row of _render_analysis_run_summary: the severities and the gate
ToolRow(tool, tool_events) ==
    LET summary == summarise_severities(tool_events)
        gate == severity_gate_status(tool, summary.highest)
    IN  [severity_display |-> summary.display,
         highest_severity |-> summary.highest,
         gate_badge |-> gate.badge,
         gate_note |-> gate.note]

GateLabels == {"info", "low", "medium", "High", "critical", "urgent"}

\* the metadata of an event: absent, without a severity, with an empty or
\* with a labelled one
GateMetadataInputs ==
    {None, Some({<<"description", "Run Semgrep.">>}), Some({<<"severity", "">>})}
        \cup {Some({<<"severity", label>>}) : label \in GateLabels}

GateInit ==
    /\ gate_events \in SeqsUpTo({[metadata |-> m] : m \in GateMetadataInputs},
                                GateMaxEvents)
    /\ gate_prev = None
    /\ gate_op = "drawn"

\* the row of the tool is rendered for the events as drawn
RenderToolRow ==
    /\ gate_op = "drawn"
    /\ gate_prev' = Some(ToolRow("Semgrep", gate_events))
    /\ gate_op' = "render"
    /\ UNCHANGED gate_events
    /\ UNCHANGED outsideGate

\* the same events reach the summary in another order
PermuteEvents ==
    /\ gate_op = "drawn"
    /\ \E pi \in Permutations(1..Len(gate_events)) :
          gate_events' = Permuted(gate_events, pi)
    /\ gate_prev' = Some(ToolRow("Semgrep", gate_events))
    /\ gate_op' = "permute_events"
    /\ UNCHANGED outsideGate

GateNext ==
    \/ RenderToolRow
    \/ PermuteEvents

GateStart ==
    /\ GateInit
    /\ EngineIdle
    /\ FingerprintIdle
    /\ StoreIdle
    /\ CodeQLIdle
    /\ WritersIdle
    /\ ManagersIdle

GateSpec == GateStart /\ [][GateNext]_vars

-----------------------------------------------------------------------------
(* Two CodeQLManager instances, each with a cache directory of its own,     *)
(* over one source tree, driven by a client.  The database directory of     *)
(* manager m is <<m>> followed by the directory's name; force and output    *)
(* are left at their defaults.  Beside the file system the model keeps, for *)
(* each manager, the file system as it would be had only that manager been  *)
(* called, on the same clock and with the same outcomes of the external     *)
(* command.                                                                 *)

\* operations the client begins
MaxManagerOps == 2

\* timedelta(days=days), in seconds
timedelta(days) == days * 86400

\* the reading of the clock when the client starts
ManagersEpoch == timedelta(10)

SourceRoots == {SourceRoot, "elsewhere"}

\* self.cache_dir.rglob(...): the directories below the cache directory of m
Below(fs, m) == [d \in {e \in DOMAIN fs : e[1] = m} |-> fs[d]]

\* the cache directories that lie under the source root
InsideSource(fs, inside) == [d \in {e \in DOMAIN fs : inside[e[1]]} |-> fs[d]]

Reverse(seq) == [i \in 1..Len(seq) |-> seq[Len(seq) + 1 - i]]

PathsOf(dbs) == [i \in 1..Len(dbs) |-> dbs[i].path]

RECURSIVE rmtree_each(_, _)
\* shutil.rmtree(db.path, ignore_errors=True) for each path in turn
rmtree_each(fs, paths) ==
    IF paths = <<>> THEN fs
    ELSE rmtree_each(rmtree(fs, Head(paths)), Tail(paths))

\* list_databases of manager m
manager_list_databases(fs, m) == list_databases(Below(fs, m))

\* the mutant: the language is not compared
invalidates_AnyLanguage(db, source_root, language) == db.source_root = source_root

\* invalidate_cache, line 182
invalidates(db, source_root, language) ==
    db.source_root = source_root /\ db.language = language

\* invalidate_cache
invalidate_cache(fs, m, source_root, language) ==
    LET removed == SelectSeq(manager_list_databases(fs, m),
                             LAMBDA db : invalidates(db, source_root, language))
    IN  [fs |-> rmtree_each(fs, PathsOf(removed)), removed |-> PathsOf(removed)]

\* the mutant: a database created at the cutoff is pruned as well
older_than_OrAt(created_at, cutoff) == created_at <= cutoff

\* prune, line 211
older_than(created_at, cutoff) == created_at < cutoff

\* the mutant: the loop runs over remaining as listed, newest first
size_loop_order_AsListed(remaining) == remaining

\* prune, line 217: reversed(remaining)
size_loop_order(remaining) == Reverse(remaining)

RECURSIVE total_size(_)
\* sum(db.size_bytes for db in remaining)
total_size(dbs) ==
    IF dbs = <<>> THEN 0 ELSE Head(dbs).size_bytes + total_size(Tail(dbs))

RECURSIVE SizeLoop(_, _, _)
\* prune, lines 217-222: the databases the loop removes, in order
SizeLoop(dbs, total, max_total_bytes) ==
    IF dbs = <<>> \/ total <= max_total_bytes THEN <<>>
    ELSE <<Head(dbs)>> \o SizeLoop(Tail(dbs), total - Head(dbs).size_bytes,
                                   max_total_bytes)

\* prune
prune(fs, m, older_than_days, max_total_bytes, now) ==
    LET listed == manager_list_databases(fs, m)
        cutoff == IF older_than_days = None THEN None
                  ELSE Some(now - timedelta(older_than_days[1]))
        aged == IF cutoff = None THEN <<>>
                ELSE SelectSeq(listed, LAMBDA db : older_than(db.created_at, cutoff[1]))
        remaining == IF cutoff = None THEN listed
                     ELSE SelectSeq(listed,
                                    LAMBDA db : ~older_than(db.created_at, cutoff[1]))
        sized == IF max_total_bytes = None THEN <<>>
                 ELSE SizeLoop(size_loop_order(remaining), total_size(remaining),
                               max_total_bytes[1])
        removed == PathsOf(aged) \o PathsOf(sized)
    IN  [fs |-> rmtree_each(fs, removed), removed |-> removed]

\* create_database, lines 101-107: the fingerprint over the files under the
\* source root, the target directory and the manifest found there
manager_call(fs, inside, m, language) ==
    LET digest == fingerprint_source(InitialSource, InsideSource(fs, inside), TRUE,
                                     language)
        target_dir == <<m>> \o target_dir_of(language, digest)
    IN  [language |-> language,
         fingerprint |-> digest,
         target_dir |-> target_dir,
         cached |-> load_metadata(fs, target_dir)]

\* create_database, line 112
manager_prepared(fs, call) == mkdir(fs, call.target_dir)

\* create_database, lines 128-131: the command has exited
manager_completed(fs, call, outcome, now) ==
    LET written == WriteFile(fs, call.target_dir, Written(outcome, now))
        database == collect_metadata(written, call.target_dir, call.language,
                                     call.fingerprint, now)
    IN  IF run_subprocess_raises(outcome.returncode)
        THEN [fs |-> written, value |-> None, raised |-> Some("CodeQLManagerError")]
        ELSE [fs |-> cache_database(written, database, now),
              value |-> Some(database), raised |-> None]

\* create_database from call to return
manager_created(fs, call, outcome, now) ==
    IF call.cached # None
    THEN [fs |-> fs, value |-> call.cached, raised |-> None]
    ELSE manager_completed(manager_prepared(fs, call), call, outcome, now)

\* what an operation gave, and what it gave on the file system of the
\* manager alone
ManagerResult(m, op, args, value, error, alone) ==
    [manager |-> m, op |-> op, args |-> args, value |-> value, raised |-> error,
     alone |-> alone]

\* a database cached earlier by manager m, from an earlier state of the
\* source tree: the directory and its manifest
CachedEarlier(m, language, source_root, version, age_days, size_bytes) ==
    LET digest == fingerprint_source({File(<<"a.py">>, 0 - version, 3, None)},
                                     EmptyFiles, FALSE, language)
    IN  [language |-> language,
         path |-> <<m>> \o target_dir_of(language, digest),
         source_root |-> source_root,
         created_at |-> ManagersEpoch - timedelta(age_days),
         size_bytes |-> size_bytes,
         fingerprint |-> digest]

EarlierDatabases(m) ==
    {CachedEarlier(m, "python", SourceRoot, 1, 9, 256),
     CachedEarlier(m, "go", SourceRoot, 2, 5, 512),
     CachedEarlier(m, "python", "elsewhere", 3, 3, 100),
     CachedEarlier(m, "python", SourceRoot, 4, 1, 42)}

\* the cache directories holding these databases
Populated(dbs) ==
    [d \in {db.path : db \in dbs} |->
        LET db == CHOOSE e \in dbs : e.path = d
        IN  cache_database(WriteFile(EmptyFiles, d, {}), db, db.created_at)[d]]

\* what the cache directories hold when the client starts: manager "a" has
\* cached none, the two oldest or all of its earlier databases, manager "b"
\* the oldest
EarlierCaches ==
    {older \cup {CachedEarlier("b", "python", SourceRoot, 1, 9, 256)} :
        older \in {{}, {db \in EarlierDatabases("a") :
                           db.created_at < ManagersEpoch - timedelta(4)},
                   EarlierDatabases("a")}}

\* what the external command does in this part of the model: it leaves files
ManagerOutcomes == {outcome \in SubprocessOutcomes : outcome.files # {}}

PruneDays == {None, Some(5)}

PruneBytes == {None, Some(300), Some(700)}

\* the cache directory of manager "a" is the default one under the source
\* root, or lies outside it as that of manager "b" does
ManagersInit ==
    /\ \E default \in BOOLEAN : mg_inside = [m \in Managers |-> default /\ m = "a"]
    /\ \E dbs \in EarlierCaches :
          /\ mg_fs = Populated(dbs)
          /\ mg_alone = [m \in Managers |-> Populated(dbs)]
    /\ mg_pc = [m \in Managers |-> "idle"]
    /\ mg_call = [m \in Managers |-> None]
    /\ mg_result = None
    /\ mg_now = ManagersEpoch
    /\ mg_ops = 0

\* list_databases
ManagerList(m) ==
    /\ mg_pc[m] = "idle"
    /\ mg_ops < MaxManagerOps
    /\ mg_result' = Some(ManagerResult(m, "list_databases", <<>>,
                                       manager_list_databases(mg_fs, m), None,
                                       [value |-> manager_list_databases(mg_alone[m], m),
                                        raised |-> None]))
    /\ mg_ops' = mg_ops + 1
    /\ UNCHANGED <<mg_inside, mg_fs, mg_alone, mg_pc, mg_call, mg_now>>
    /\ UNCHANGED outsideManagers

\* prune
ManagerPrune(m, older_than_days, max_total_bytes) ==
    /\ mg_pc[m] = "idle"
    /\ mg_ops < MaxManagerOps
    /\ LET pruned == prune(mg_fs, m, older_than_days, max_total_bytes, mg_now)
           alone == prune(mg_alone[m], m, older_than_days, max_total_bytes, mg_now)
       IN  /\ mg_fs' = pruned.fs
           /\ mg_alone' = [mg_alone EXCEPT ![m] = alone.fs]
           /\ mg_result' = Some(ManagerResult(m, "prune",
                                              <<older_than_days, max_total_bytes>>,
                                              pruned.removed, None,
                                              [value |-> alone.removed, raised |-> None]))
    /\ mg_ops' = mg_ops + 1
    /\ UNCHANGED <<mg_inside, mg_pc, mg_call, mg_now>>
    /\ UNCHANGED outsideManagers

\* invalidate_cache
ManagerInvalidate(m, source_root, language) ==
    /\ mg_pc[m] = "idle"
    /\ mg_ops < MaxManagerOps
    /\ LET invalidated == invalidate_cache(mg_fs, m, source_root, language)
           alone == invalidate_cache(mg_alone[m], m, source_root, language)
       IN  /\ mg_fs' = invalidated.fs
           /\ mg_alone' = [mg_alone EXCEPT ![m] = alone.fs]
           /\ mg_result' = Some(ManagerResult(m, "invalidate_cache",
                                              <<source_root, language>>,
                                              invalidated.removed, None,
                                              [value |-> alone.removed, raised |-> None]))
    /\ mg_ops' = mg_ops + 1
    /\ UNCHANGED <<mg_inside, mg_pc, mg_call, mg_now>>
    /\ UNCHANGED outsideManagers

\* create_database returns the cached metadata
ManagerCreateCached(m, language, outcome) ==
    /\ mg_pc[m] = "idle"
    /\ mg_ops < MaxManagerOps
    /\ LET call == manager_call(mg_fs, mg_inside, m, language)
           alone == manager_created(mg_alone[m],
                                    manager_call(mg_alone[m], mg_inside, m, language),
                                    outcome, mg_now)
       IN  /\ call.cached # None
           /\ mg_alone' = [mg_alone EXCEPT ![m] = alone.fs]
           /\ mg_result' = Some(ManagerResult(m, "create_database", <<language>>,
                                              call.cached, None,
                                              [value |-> alone.value,
                                               raised |-> alone.raised]))
    /\ mg_ops' = mg_ops + 1
    /\ UNCHANGED <<mg_inside, mg_fs, mg_pc, mg_call, mg_now>>
    /\ UNCHANGED outsideManagers

\* create_database prepares the directory and starts the external command
ManagerCreateLaunch(m, language, outcome) ==
    /\ mg_pc[m] = "idle"
    /\ mg_ops < MaxManagerOps
    /\ LET call == manager_call(mg_fs, mg_inside, m, language)
           alone == manager_call(mg_alone[m], mg_inside, m, language)
       IN  /\ call.cached = None
           /\ mg_fs' = manager_prepared(mg_fs, call)
           /\ mg_alone' = [mg_alone EXCEPT ![m] =
                              IF alone.cached # None THEN @
                              ELSE manager_prepared(@, alone)]
           /\ mg_call' = [mg_call EXCEPT ![m] =
                             Some([call |-> call, alone |-> alone, outcome |-> outcome])]
    /\ mg_pc' = [mg_pc EXCEPT ![m] = "running"]
    /\ mg_result' = None
    /\ mg_ops' = mg_ops + 1
    /\ UNCHANGED <<mg_inside, mg_now>>
    /\ UNCHANGED outsideManagers

\* the external command exits: _run_subprocess raises, or create_database
\* collects the metadata, writes the manifest and returns
ManagerCreateComplete(m) ==
    /\ mg_pc[m] = "running"
    /\ LET under_way == mg_call[m][1]
           completed == manager_completed(mg_fs, under_way.call, under_way.outcome,
                                          mg_now)
           alone == manager_created(mg_alone[m], under_way.alone, under_way.outcome,
                                    mg_now)
       IN  /\ mg_fs' = completed.fs
           /\ mg_alone' = [mg_alone EXCEPT ![m] = alone.fs]
           /\ mg_result' = Some(ManagerResult(m, "create_database",
                                              <<under_way.call.language>>,
                                              completed.value, completed.raised,
                                              [value |-> alone.value,
                                               raised |-> alone.raised]))
    /\ mg_pc' = [mg_pc EXCEPT ![m] = "idle"]
    /\ mg_call' = [mg_call EXCEPT ![m] = None]
    /\ mg_now' = mg_now + 1
    /\ UNCHANGED <<mg_inside, mg_ops>>
    /\ UNCHANGED outsideManagers

ManagersNext ==
    \/ \E m \in Managers : ManagerList(m)
    \/ \E m \in Managers : \E older_than_days \in PruneDays :
          \E max_total_bytes \in PruneBytes :
             ManagerPrune(m, older_than_days, max_total_bytes)
    \/ \E m \in Managers : \E source_root \in SourceRoots : \E language \in Languages :
          ManagerInvalidate(m, source_root, language)
    \/ \E m \in Managers : \E language \in Languages :
          \E outcome \in ManagerOutcomes : ManagerCreateCached(m, language, outcome)
    \/ \E m \in Managers : \E language \in Languages :
          \E outcome \in ManagerOutcomes : ManagerCreateLaunch(m, language, outcome)
    \/ \E m \in Managers : ManagerCreateComplete(m)

ManagersStart ==
    /\ ManagersInit
    /\ EngineIdle
    /\ FingerprintIdle
    /\ StoreIdle
    /\ CodeQLIdle
    /\ WritersIdle
    /\ GateIdle

ManagersSpec == ManagersStart /\ [][ManagersNext]_vars

-----------------------------------------------------------------------------
(* What the claims speak of, stated on the inputs of the call *)

\* the plan is executed: it is ready, or unready plans are forced
Runnable(plan) == plan.ready \/ include_unready

\* a severity filter was supplied and names at least one level
FilterActive == severity_filter # None /\ severity_filter[1] # <<>>

\* the step's severity is present and, compared case-insensitively, not in the filter
FilteredOut(step) ==
    /\ FilterActive
    /\ step.severity # None
    /\ \A i \in 1..Len(severity_filter[1]) :
          Lower(severity_filter[1][i]) # Lower(step.severity[1])

Kept(step) == ~FilteredOut(step)

\* the surviving steps of a plan, in step order
Surviving(plan) == IF Runnable(plan) THEN SelectSeq(plan.steps, Kept) ELSE <<>>

RECURSIVE SurvivingFrom(_)
\* the surviving steps of plans i.., in plan order then step order
SurvivingFrom(i) ==
    IF i > Len(plans) THEN <<>> ELSE Surviving(plans[i]) \o SurvivingFrom(i + 1)

CommandsOf(steps) == [i \in 1..Len(steps) |-> steps[i].command]

IsRunnerCall(entry) == entry.kind = "runner"

\* the commands the runner was invoked with, in order of invocation
RunnerCommands == CommandsOf(SelectSeq(trace, IsRunnerCall))

IsPrefix(short, long) ==
    /\ Len(short) <= Len(long)
    /\ \A i \in 1..Len(short) : short[i] = long[i]

\* the events, the runner's commands and the notes that belong to one tool
EventsOfTool(tool) == SelectSeq(events, LAMBDA e : e.tool = tool)

NotesOfTool(tool) == SelectSeq(notes, LAMBDA n : n.tool = tool)

RunnerCommandsOfTool(tool) ==
    SelectSeq(RunnerCommands, LAMBDA c : c[1] = Binary(tool))

CountNotes(kind, tool, subject) ==
    Cardinality({i \in 1..Len(notes) :
        notes[i].kind = kind /\ notes[i].tool = tool /\ notes[i].subject = subject})

Terminated == pc \in {"done", "raised"}

-----------------------------------------------------------------------------
\* C1: the runner is invoked strictly in plan order then step order: at every
\* point of the call the commands it was invoked with are a prefix of the
\* surviving steps' commands (plans in the order given, steps in plan order),
\* every recorded event is the event of the runner invocation at its position,
\* and the returned run's events are those of all surviving steps in that order,
\* one per runner invocation.
C1_SequentialOrder ==
    /\ IsPrefix(RunnerCommands, CommandsOf(SurvivingFrom(1)))
    /\ IsPrefix(CommandsOf(events), RunnerCommands)
    /\ pc = "done" =>
          /\ RunnerCommands = CommandsOf(SurvivingFrom(1))
          /\ CommandsOf(returned[1].events) = RunnerCommands

\* plans [A, B] with two surviving steps each have run: A.1, A.2, B.1, B.2
C1_Witness ==
    /\ pc = "done"
    /\ Len(plans) = 2
    /\ Len(Surviving(plans[1])) = 2
    /\ Len(Surviving(plans[2])) = 2
    /\ RunnerCommands = <<plans[1].steps[1].command, plans[1].steps[2].command,
                          plans[2].steps[1].command, plans[2].steps[2].command>>
    /\ Len(returned[1].events) = 4

\* C2: a failing step never aborts the run: the call does not raise out of a
\* step that exited non-zero or failed to launch (the runner raised OSError);
\* until it has returned or raised it can always go on; and when it returns,
\* the run holds one event for every surviving step.
C2_FailureNeverAborts ==
    /\ pc = "raised" =>
          LET outcome == last_outcome[1] IN
          /\ outcome.raises => outcome.exception # "OSError"
          /\ ~outcome.raises => extract_exit_code(outcome.result) = None
    /\ ~Terminated => ENABLED Next
    /\ pc = "done" =>
          /\ returned # None
          /\ Len(returned[1].events) = Len(SurvivingFrom(1))

\* the first of four steps failed, the other three ran and the run was returned
C2_Witness ==
    /\ pc = "done"
    /\ Len(returned[1].events) = 4
    /\ returned[1].events[1].exit_code # 0
    /\ returned[1].events[1].tool = plans[1].tool
    /\ returned[1].events[4].tool = plans[2].tool

\* C3: in the returned run, an unready plan executed with include_unready false
\* has no event and exactly one note, 'Skipped <tool>: <reason>', and the runner
\* is never invoked for it; with include_unready true and no severity filter it
\* has one event for each of its steps, in order, and one 'Forced execution for
\* <tool>: <reason>' note.
C3_UnreadySkipLaw ==
    \A i \in 1..Len(plans) :
        LET plan == plans[i] IN
        ~plan.ready =>
            /\ ~include_unready =>
                  /\ EventsOfTool(plan.tool) = <<>>
                  /\ RunnerCommandsOfTool(plan.tool) = <<>>
                  /\ pc = "done" =>
                        NotesOfTool(plan.tool) =
                            <<Note("skipped_unready", plan.tool, <<plan.reason>>, 0, "")>>
            /\ (include_unready /\ severity_filter = None /\ pc = "done") =>
                  /\ CommandsOf(EventsOfTool(plan.tool)) = CommandsOf(plan.steps)
                  /\ CountNotes("forced", plan.tool, <<plan.reason>>) = 1
                  /\ CountNotes("skipped_unready", plan.tool, <<plan.reason>>) = 0

\* an unready plan with two steps was skipped while the other plan ran
C3_Witness ==
    /\ pc = "done"
    /\ ~include_unready
    /\ Len(plans) = 2
    /\ ~plans[1].ready
    /\ Len(plans[1].steps) = 2
    /\ plans[2].ready
    /\ Len(returned[1].events) = 2
    /\ Len(returned[1].notes) = 1

\* the commands of the events recorded so far, as a set
EventCommands == Range(CommandsOf(events))

\* C4 as stated: under an active filter every step whose severity is present
\* and not in the filter is kept from the runner, has no event, and has its
\* 'due to severity filter' note in the returned run; and a plan all of whose
\* steps are filtered out has the 'All steps skipped' note there.
C4_AsStated ==
    \A i \in 1..Len(plans) :
        LET plan == plans[i] IN
        /\ \A j \in 1..Len(plan.steps) :
              FilteredOut(plan.steps[j]) =>
                  /\ plan.steps[j].command \notin Range(RunnerCommands)
                  /\ plan.steps[j].command \notin EventCommands
                  /\ pc = "done" =>
                        CountNotes("skipped_severity", plan.tool,
                                   <<plan.steps[j].description>>) = 1
        /\ (/\ pc = "done"
            /\ plan.steps # <<>>
            /\ \A j \in 1..Len(plan.steps) : FilteredOut(plan.steps[j]))
           => CountNotes("all_skipped", plan.tool, <<>>) = 1

\* C4, amended: under an active filter every step whose severity is present and
\* not in the filter is kept from the runner and has no event; the 'due to
\* severity filter' note, and the 'All steps skipped' note of a plan all of
\* whose steps are filtered out, are in the returned run when the plan is
\* executed (ready, or forced by include_unready), and are not when it is
\* skipped as unready.
C4_SeverityFilterSkip ==
    \A i \in 1..Len(plans) :
        LET plan == plans[i] IN
        /\ \A j \in 1..Len(plan.steps) :
              FilteredOut(plan.steps[j]) =>
                  /\ plan.steps[j].command \notin Range(RunnerCommands)
                  /\ plan.steps[j].command \notin EventCommands
                  /\ pc = "done" =>
                        CountNotes("skipped_severity", plan.tool,
                                   <<plan.steps[j].description>>)
                            = IF Runnable(plan) THEN 1 ELSE 0
        /\ (/\ pc = "done"
            /\ plan.steps # <<>>
            /\ \A j \in 1..Len(plan.steps) : FilteredOut(plan.steps[j]))
           => CountNotes("all_skipped", plan.tool, <<>>)
                 = IF Runnable(plan) THEN 1 ELSE 0

\* a ready plan had both its steps filtered out, the other plan ran a step
C4_Witness ==
    /\ pc = "done"
    /\ Len(plans) = 2
    /\ plans[1].ready
    /\ Len(plans[1].steps) = 2
    /\ \A j \in 1..2 : FilteredOut(plans[1].steps[j])
    /\ CountNotes("all_skipped", plans[1].tool, <<>>) = 1
    /\ EventsOfTool(plans[1].tool) = <<>>
    /\ EventsOfTool(plans[2].tool) # <<>>

\* C5 as stated: in the returned run every step without severity was executed
\* whenever a filter is active, and has the 'lacks severity metadata' note
\* exactly when a filter is active.
C5_AsStated ==
    pc = "done" =>
        \A i \in 1..Len(plans) : \A j \in 1..Len(plans[i].steps) :
            plans[i].steps[j].severity = None =>
                /\ FilterActive => plans[i].steps[j].command \in EventCommands
                /\ CountNotes("lacks_severity", plans[i].tool,
                              <<plans[i].steps[j].description>>)
                      = IF FilterActive THEN 1 ELSE 0

\* C5, amended: in the returned run every step without severity of an executed
\* plan (ready, or forced by include_unready) was executed, under any filter,
\* and has the 'lacks severity metadata' note exactly when a filter is active;
\* a step of a plan skipped as unready has neither event nor note.
C5_MissingSeverityExecutes ==
    pc = "done" =>
        \A i \in 1..Len(plans) : \A j \in 1..Len(plans[i].steps) :
            plans[i].steps[j].severity = None =>
                /\ plans[i].steps[j].command \in EventCommands <=> Runnable(plans[i])
                /\ CountNotes("lacks_severity", plans[i].tool,
                              <<plans[i].steps[j].description>>)
                      = IF FilterActive /\ Runnable(plans[i]) THEN 1 ELSE 0

\* under an active filter a step without severity ran beside a filtered one
C5_Witness ==
    /\ pc = "done"
    /\ FilterActive
    /\ Len(plans) >= 1
    /\ Len(plans[1].steps) = 2
    /\ plans[1].steps[1].severity = None
    /\ FilteredOut(plans[1].steps[2])
    /\ CommandsOf(EventsOfTool(plans[1].tool)) = <<plans[1].steps[1].command>>
    /\ CountNotes("lacks_severity", plans[1].tool, <<plans[1].steps[1].description>>) = 1

\* the exit code a result of the runner reports: the integer itself, else its
\* returncode attribute, else its exit_code attribute
ReportedCode(result) ==
    IF result.is_int THEN result.value
    ELSE IF result.returncode # None THEN result.returncode[1]
    ELSE result.exit_code[1]

\* a result that is neither an integer nor has returncode or exit_code
Malformed(result) ==
    ~result.is_int /\ result.returncode = None /\ result.exit_code = None

\* C6: when the runner raises a launch failure for a step, the event recorded
\* for that step has exit code 127 and the failure's message under 'error', the
\* notes gain the launch-failure note followed by the exit-code-127 note, and
\* the run goes on to record every surviving step; when the runner returns, the
\* event's exit code is the code the result reports and it has no 'error'.
C6_LaunchFailure ==
    /\ (last_outcome # None /\ pc # "raised") =>
          /\ events # <<>>
          /\ LET outcome == last_outcome[1]
                 event == events[Len(events)]
             IN  IF outcome.raises
                 THEN /\ outcome.exception = "OSError"
                      /\ event.exit_code = 127
                      /\ event.metadata.error = Some(outcome.message)
                      /\ \E n \in 1..(Len(notes) - 1) :
                            /\ notes[n] = Note("launch_failed", event.tool,
                                               event.command, 0, outcome.message)
                            /\ notes[n + 1] = Note("exit_code", event.tool,
                                                   event.command, 127, "")
                 ELSE /\ event.exit_code = ReportedCode(outcome.result)
                      /\ event.metadata.error = None
    /\ \A k \in 1..Len(events) :
          events[k].metadata.error # None => events[k].exit_code = 127
    /\ pc = "done" => CommandsOf(returned[1].events) = CommandsOf(SurvivingFrom(1))

\* a launch failure on the first step, and the run went on to the second
C6_Witness ==
    /\ pc = "done"
    /\ Len(returned[1].events) >= 2
    /\ returned[1].events[1].exit_code = 127
    /\ returned[1].events[1].metadata.error = Some("binary not found")
    /\ returned[1].events[2].exit_code = 0
    /\ returned[1].events[2].metadata.error = None

C10_FingerprintAndPersist ==
    /\ pc # "done" => store_runs = EmptyRuns
    /\ pc = "done" =>
          LET run == returned[1] IN
          /\ run.fingerprint = fingerprint_analysis(Report, plans, Metadata)
          /\ store_supplied =>
                /\ DOMAIN store_runs = {run.fingerprint}
                /\ StoreHistory(store_runs, run.fingerprint) = <<run>>
                /\ StoreLatest(store_runs, run.fingerprint) = Some(run)
          /\ ~store_supplied => store_runs = EmptyRuns

\* a store was supplied; the first plan was skipped as unready, the second ran
C10_Witness ==
    /\ pc = "done"
    /\ store_supplied
    /\ Len(plans) = 2
    /\ ~plans[1].ready /\ ~include_unready /\ plans[1].steps # <<>>
    /\ returned[1].events # <<>>
    /\ StoreLatest(store_runs, returned[1].fingerprint) = returned

\* C8: after the language summaries, the tool statuses or the plans handed to
\* fingerprint_analysis are permuted, the digest is the digest from before.
C8_PermutationInvariance ==
    fp_op \in {"permute_languages", "permute_tool_statuses", "permute_plans"} =>
        Digest = fp_prev[1]

\* C9: after the command, the description or the severity of one step is
\* changed, everything else as it was, the canonical payload and with it the
\* digest differ from those before.
C9_StepSensitivity ==
    fp_op \in {"change_command", "change_description", "change_severity"} =>
        /\ fp_prev # None
        /\ Digest # fp_prev[1]
        /\ CanonicalPayload(fp_report, fp_plans, Metadata) # fp_prev[1][2]

\* the severity of a step of the second of two plans was changed
C9_Witness ==
    /\ fp_op = "change_severity"
    /\ Len(fp_plans) = 2
    /\ fp_plans[1].steps # <<>>
    /\ fp_plans[2].steps # <<>>
    /\ Digest # fp_prev[1]

\* C11: the returned run's completed_at is the timestamp of its last event,
\* which is the reading of the time source taken after that step's runner
\* call, or the run's started_at when it has no event; every event's duration
\* and the run's duration are the later reading less the earlier one, or 0
\* when that is negative.
C11_CompletionAndDurations ==
    /\ \A k \in 1..Len(events) :
          LET start == TimeAt(2 * k - 1)
              end == TimeAt(2 * k)
          IN  /\ events[k].timestamp = end
              /\ events[k].duration_seconds = IF end >= start THEN end - start ELSE 0
              /\ events[k].duration_seconds >= 0
    /\ pc = "done" =>
          LET run == returned[1] IN
          /\ run.started_at = TimeAt(0)
          /\ run.completed_at = IF run.events = <<>> THEN run.started_at
                                ELSE run.events[Len(run.events)].timestamp
          /\ duration_seconds(run) = IF run.completed_at >= run.started_at
                                     THEN run.completed_at - run.started_at ELSE 0
          /\ duration_seconds(run) >= 0

\* the readings went backwards over a run of two events
C11_Witness ==
    /\ pc = "done"
    /\ time_source = "receding"
    /\ Len(returned[1].events) = 2
    /\ returned[1].events[2].timestamp < returned[1].events[1].timestamp
    /\ returned[1].events[2].duration_seconds = 0
    /\ returned[1].completed_at = returned[1].events[2].timestamp
    /\ returned[1].completed_at < returned[1].started_at
    /\ duration_seconds(returned[1]) = 0

\* C12: the returned run is successful exactly when every event has exit code
\* 0, which is exactly when no step exited non-zero or failed to launch; a run
\* without events is successful.
C12_Successful ==
    pc = "done" =>
        LET run == returned[1] IN
        /\ successful(run) <=> failures = 0
        /\ successful(run) <=> {k \in 1..Len(run.events) : run.events[k].exit_code # 0} = {}
        /\ run.events = <<>> => successful(run)

\* a launch failure among the events of a run made it unsuccessful
C12_Witness ==
    /\ pc = "done"
    /\ Len(returned[1].events) = 2
    /\ returned[1].events[1].exit_code = 0
    /\ returned[1].events[2].exit_code = 127
    /\ returned[1].events[2].metadata.error # None
    /\ ~successful(returned[1])

\* persist has just returned, without an exception, for this fingerprint
JustPersisted(digest) ==
    /\ store_kind = "jsonl"
    /\ st_result # None
    /\ st_result[1].op = "persist"
    /\ st_result[1].fingerprint = digest
    /\ st_result[1].raised = None

\* the last n of a sequence of runs, all of it when it has no more than n
MostRecent(runs, n) ==
    SubSeq(runs, (IF Len(runs) > n THEN Len(runs) - n ELSE 0) + 1, Len(runs))

\* which runs a sequence holds, by their notes
NotesOf(runs) == [k \in 1..Len(runs) |-> runs[k].notes]

\* the file of a fingerprint, if there is one
FileOf(fs, digest) ==
    IF path_for(digest) \in DOMAIN fs THEN Some(fs[path_for(digest)]) ELSE None

\* C13: when persist has returned in a store with maximum history length N,
\* the history of the fingerprint holds at most N runs, and they are the N
\* most recently persisted ones in the order they were persisted.
C13_BoundedHistory ==
    \A digest \in Fingerprints :
        (JustPersisted(digest) /\ max_history # None) =>
            LET history == read_runs(files, digest).runs
            IN  /\ Len(history) <= max_history[1]
                /\ NotesOf(history) = NotesOf(MostRecent(persisted[digest],
                                                         max_history[1]))

\* C14: when persist has returned, the last run of the history read back from
\* the file equals, field by field, the run that was persisted.
C14_RoundTrip ==
    \A digest \in Fingerprints :
        JustPersisted(digest) =>
            LET read == read_runs(files, digest)
                run == persisted[digest][Len(persisted[digest])]
            IN  /\ read.raised = None
                /\ read.runs # <<>>
                /\ read.runs[Len(read.runs)] = run

\* C15: whatever lines that are no runs the file holds, no call of the store
\* raises; history gives the runs of the file's lines that are runs, in order;
\* and when persist has returned in a store without a history limit, the file
\* holds the lines of the earlier runs and of the new one and no other line.
C15_CorruptionResilience ==
    /\ (store_kind = "jsonl" /\ st_result # None) =>
          /\ st_result[1].raised = None
          /\ st_result[1].op = "history" =>
                LET found == FileOf(files, st_result[1].fingerprint)
                IN  st_result[1].value = IF found = None THEN <<>> ELSE RunsIn(found[1])
    /\ \A digest \in Fingerprints :
          (JustPersisted(digest) /\ max_history = None) =>
              LET content == files[path_for(digest)]
              IN  /\ \A k \in 1..Len(content) : content[k].kind = "run"
                  /\ NotesOf(RunsIn(content)) = NotesOf(persisted[digest])

\* C16: a step changes the file of a fingerprint only as the last step of a
\* persist for that fingerprint, and puts in its place the whole new history:
\* a line for every run of the history read before, cut to the limit, with the
\* persisted run last.  Every other step, a crash within persist among them,
\* leaves the file as it was.
C16_AtomicPersist ==
    [][\A digest \in Fingerprints :
          FileOf(files', digest) # FileOf(files, digest) =>
              /\ st_pc = "write"
              /\ st_run[1].fingerprint = digest
              /\ st_written = Len(st_history)
              /\ st_history # <<>>
              /\ st_history[Len(st_history)] = st_run[1]
              /\ FileOf(files', digest) =
                    Some([k \in 1..Len(st_history) |->
                            json_dump(run_to_payload(st_history[k]))])
              /\ LET before == IF FileOf(files, digest) = None THEN <<>>
                               ELSE RunsIn(FileOf(files, digest)[1])
                 IN  \E n \in 0..Len(before) :
                        st_history = SubSeq(before, n + 1, Len(before)) \o st_run
      ]_vars

\* the process died after one of two lines was written to the temporary
\* file: the file still holds its two runs
C16_Witness ==
    /\ store_kind = "jsonl"
    /\ st_pc = "idle"
    /\ persists = 1
    /\ temp_path("a") \in DOMAIN files
    /\ Len(files[temp_path("a")]) = 1
    /\ FileOf(files, "a") # None
    /\ Len(RunsIn(files[path_for("a")])) = 2
    /\ Len(persisted["a"]) = 2

\* C17: while a fingerprint has never been persisted (no file and no entry for
\* it, no run persisted), every step other than the return of a persist for
\* it leaves it without file and without entry, and a latest for it gives
\* None and a history for it the empty tuple, neither raising.
C17_MissingFingerprint ==
    [][\A digest \in Fingerprints :
          (/\ persisted[digest] = <<>>
           /\ path_for(digest) \notin DOMAIN files
           /\ digest \notin DOMAIN store_runs
           /\ persisted'[digest] = <<>>) =>
              /\ path_for(digest) \notin DOMAIN files'
              /\ digest \notin DOMAIN store_runs'
              /\ (/\ st_result' # None
                  /\ st_result'[1].fingerprint = digest
                  /\ st_result'[1].op \in {"latest", "history"}) =>
                     /\ st_result'[1].raised = None
                     /\ st_result'[1].value = <<>>
      ]_vars

\* the in-memory store holds runs of "a" and was asked for the history of "b"
C17_Witness ==
    /\ store_kind = "memory"
    /\ persisted["a"] # <<>>
    /\ persisted["b"] = <<>>
    /\ st_result = Some(Result("history", "b", <<>>, None))
    /\ DOMAIN store_runs = {"a"}

-----------------------------------------------------------------------------
(* The CodeQL manager's cache *)

\* the last create_database for the language ended with a database, and the
\* source tree is as it was then
CreatedForThisSource(l) ==
    /\ last_create[l] # None
    /\ last_create[l][1].database # None
    /\ last_create[l][1].source = source_files

\* the last create_database for the language ended with the external
\* command exiting non-zero, and the source tree is as it was then
FailedForThisSource(l) ==
    /\ last_create[l] # None
    /\ last_create[l][1].returncode \notin {None, Some(0)}
    /\ last_create[l][1].source = source_files

\* the paths of the databases list_databases gives
ListedPaths(cache) ==
    {list_databases(cache)[k].path : k \in 1..Len(list_databases(cache))}

\* C18: a create_database call without force for a language and a source
\* tree for which the previous create_database gave a database, the source
\* files unchanged since, invokes no external command and returns the cached
\* metadata, equal to the database of the previous call.
C18_CacheHitAvoidance ==
    [][\A l \in Languages :
           (CreatedForThisSource(l) /\ CreateCall(l, FALSE))
           => /\ CreateCached(l, FALSE)
              /\ commands' = commands
              /\ ql_result' = Some(QlResult("create_database",
                                            last_create[l][1].database, None))]_vars

\* C19: when the external create command exits non-zero, create_database
\* raises CodeQLManagerError, the database directory holds no manifest and
\* list_databases does not give it; and a later create_database for the
\* same language and unchanged source is no cache hit: where a codeql
\* binary is at hand it invokes the external command again.
C19_FailedCreateNotCached ==
    [][/\ \A outcome \in SubprocessOutcomes :
              (outcome.returncode # 0 /\ CreateComplete(outcome))
              => /\ ql_result' # None
                 /\ ql_result'[1].raised = Some("CodeQLManagerError")
                 /\ load_metadata(cache_dirs', ql_call[1].target_dir) = None
                 /\ ql_call[1].target_dir \notin ListedPaths(cache_dirs')
       /\ \A l \in Languages, force \in BOOLEAN :
              (FailedForThisSource(l) /\ CreateCall(l, force))
              => /\ ~CreateCached(l, force)
                 /\ ensure_codeql(codeql_path, which_codeql).raised = None
                    => /\ Len(commands') = Len(commands) + 1
                       /\ commands'[Len(commands')].language = l
                       /\ ql_pc' = "running"]_vars

\* the external command failed for a language, and a second create_database
\* for the same language and the same target directory invoked it again
C19_Witness ==
    /\ Len(commands) = 2
    /\ commands[1].returncode = Some(2)
    /\ commands[2].language = commands[1].language
    /\ commands[2].target_dir = commands[1].target_dir
    /\ load_metadata(cache_dirs, commands[1].target_dir) = None
    /\ touches = 0

\* C20: when create_database has raised CodeQLUnavailableError, the cache
\* directory is as it was before the call: no directory was created and no
\* database directory was deleted.
C20_UnavailableBeforeMutation ==
    (ql_result # None /\ ql_result[1].raised = Some("CodeQLUnavailableError"))
    => cache_dirs = ql_call[1].before

-----------------------------------------------------------------------------
(* Progress callbacks *)

RECURSIVE CallbackArgsFrom(_)
\* the tool and the command of every surviving step of plans i.., in order
CallbackArgsFrom(i) ==
    IF i > Len(plans) THEN <<>>
    ELSE [k \in 1..Len(Surviving(plans[i])) |->
              [tool |-> plans[i].tool, command |-> Surviving(plans[i])[k].command]]
         \o CallbackArgsFrom(i + 1)

\* C27: the trace of callback and runner invocations is, for the surviving
\* steps in order, on_step_start(plan, step), the runner's call, then
\* on_step_complete(plan, step, exit_code, duration) with the exit code and
\* the duration of the step's event, each step's three before the next
\* step's; only a step whose runner call raised out of the run lacks its
\* on_step_complete.  No callback is invoked for any other step: when the
\* run is returned the trace holds exactly three entries per surviving step.
C27_CallbacksBracket ==
    \A expected \in {CallbackArgsFrom(1)} :
    LET n == Len(trace)
    IN  /\ \A i \in 1..n :
               LET k == (i + 2) \div 3
                   position == (i - 1) % 3
               IN  /\ k <= Len(expected)
                   /\ position = 0 =>
                          trace[i] = TraceEntry("on_step_start", expected[k].tool,
                                                expected[k].command, 0, 0)
                   /\ position = 1 =>
                          trace[i] = TraceEntry("runner", "", expected[k].command, 0, 0)
                   /\ position = 2 =>
                          /\ k <= Len(events)
                          /\ events[k].tool = expected[k].tool
                          /\ events[k].command = expected[k].command
                          /\ trace[i] = TraceEntry("on_step_complete", expected[k].tool,
                                                   expected[k].command,
                                                   events[k].exit_code,
                                                   events[k].duration_seconds)
        /\ n % 3 # 1
        /\ n % 3 = 2 => pc = "raised"
        /\ Len(events) = n \div 3
        /\ pc = "done" => n = 3 * Len(expected)

\* a returned run with a severity-filtered step, at least two executed steps
\* and an event with a non-zero exit code reported to on_step_complete
C27_Witness ==
    /\ pc = "done"
    /\ Len(trace) >= 6
    /\ \E i \in 1..Len(plans) :
           Runnable(plans[i]) /\ Len(Surviving(plans[i])) < Len(plans[i].steps)
    /\ \E i \in 1..Len(trace) :
           trace[i].kind = "on_step_complete" /\ trace[i].exit_code # 0
                                              /\ trace[i].duration > 0

-----------------------------------------------------------------------------
(* One fingerprint's history and another's persist *)

\* what history(digest) gives in the store the client holds
HistoryOf(digest) ==
    IF store_kind = "memory"
    THEN [raised |-> None, runs |-> StoreHistory(store_runs, digest)]
    ELSE read_runs(files, digest)

\* what latest(digest) gives in the store the client holds
LatestOf(digest) ==
    IF store_kind = "memory" THEN StoreLatest(store_runs, digest)
    ELSE LET read == read_runs(files, digest)
         IN  IF read.runs = <<>> THEN None ELSE Some(read.runs[Len(read.runs)])

\* the step is one of persist(run) for a run of another fingerprint
PersistsAnother(digest) ==
    \/ /\ persists' = persists + 1
       /\ \E run \in StoreRunInputs(persists + 1) :
              run.fingerprint # digest /\ (MemPersist(run) \/ PersistRead(run))
    \/ /\ st_run # None
       /\ st_run[1].fingerprint # digest
       /\ (PersistOpenTemp \/ PersistWriteLine \/ PersistReplace)

\* C30: no step of persisting a run for one fingerprint changes what
\* history and latest give for another fingerprint, in either store and
\* whatever the configured maximum.
C30_PersistFrame ==
    [][\A digest \in Fingerprints :
           PersistsAnother(digest)
           => /\ HistoryOf(digest)' = HistoryOf(digest)
              /\ LatestOf(digest)' = LatestOf(digest)]_vars

\* a store limited to one run holds two runs for "a" and has persisted a
\* run for "b": the two runs of "a" are still there
C30_Witness ==
    /\ store_kind = "jsonl"
    /\ max_history = Some(1)
    /\ st_result = Some(Result("persist", "b", <<>>, None))
    /\ Len(HistoryOf("a").runs) = 2
    /\ Len(HistoryOf("b").runs) = 1

-----------------------------------------------------------------------------
(* The two stores side by side *)

\* C28: after any sequence of persist calls made on both stores, history
\* gives the same runs in the same order in both for every fingerprint,
\* latest gives the same run in both, and latest is the last run of
\* history; and what the client was given by latest and by history on the
\* two stores is equal.
C28_StoreEquivalence ==
    /\ \A digest \in Fingerprints :
           LET memory == StoreHistory(store_runs, digest)
               read == read_runs(files, digest)
           IN  /\ read.raised = None
               /\ read.runs = memory
               /\ StoreLatest(store_runs, digest) =
                      (IF read.runs = <<>> THEN None
                       ELSE Some(read.runs[Len(read.runs)]))
               /\ StoreLatest(store_runs, digest) =
                      (IF memory = <<>> THEN None ELSE Some(memory[Len(memory)]))
    /\ (st_result # None /\ st_result[1].op \in {"latest", "history"})
       => st_result[1].value[1] = st_result[1].value[2]

-----------------------------------------------------------------------------
(* Uncoordinated writers *)

\* the runs whose persist call returned and that history does not give
LostRuns(digest) ==
    {k \in 1..Len(persisted[digest]) :
         \A i \in 1..Len(read_runs(files, digest).runs) :
             read_runs(files, digest).runs[i] # persisted[digest][k]}

\* C26: a run whose persist returned is absent from history only for a
\* fingerprint for which the persist calls of two writers overlapped; for
\* any other fingerprint history gives exactly the runs persisted, in order,
\* so that a run is there when its persist returns.  (That the lost update
\* is reachable is C26_Witness.)
C26_LostUpdateNeedsOverlap ==
    \A digest \in Fingerprints :
        digest \notin overlapped
        => /\ LostRuns(digest) = {}
           /\ read_runs(files, digest) = [raised |-> None, runs |-> persisted[digest]]

\* both writers' persist calls for "a" have returned without an exception,
\* and history("a") lacks the run of one of them
C26_Witness ==
    /\ \A w \in Writers : writer_result[w] = Some(Result("persist", "a", <<>>, None))
    /\ Len(persisted["a"]) = 2
    /\ LostRuns("a") # {}
    /\ Len(read_runs(files, "a").runs) = 1

-----------------------------------------------------------------------------
(* The severity gate *)

\* the lower-cased labels the events carry
LabelsOf(tool_events) ==
    {Lower(MappingGet(event.metadata[1], "severity")[1]) :
        event \in {e \in Range(tool_events) :
                      /\ e.metadata # None
                      /\ MappingGet(e.metadata[1], "severity") # None
                      /\ MappingGet(e.metadata[1], "severity") # Some("")}}

KnownLabels(tool_events) == {l \in LabelsOf(tool_events) : SEVERITY_RANK(l) # None}

\* the decision the gate is to take on a collection of labels
GateDecision(tool_events) ==
    IF KnownLabels(tool_events) \cap {"high", "critical"} # {} THEN "BLOCK"
    ELSE IF \/ "medium" \in KnownLabels(tool_events)
            \/ LabelsOf(tool_events) \ KnownLabels(tool_events) # {}
         THEN "REVIEW"
         ELSE "PASS"

\* C24: the gate of a rendered row is BLOCK when a known severity of high or
\* critical is present among the events; otherwise REVIEW when the highest
\* known severity is medium or an unrecognised label is present; otherwise
\* (only info or low, or no event with a severity) PASS.
C24_SeverityGate ==
    gate_op = "render" => gate_prev[1].gate_badge = GateDecision(gate_events)

\* C29: the same events in any other order give the same highest severity
\* and the same gate decision.
C29_GateOrderIndependent ==
    gate_op = "permute_events" =>
        LET row == ToolRow("Semgrep", gate_events)
        IN  /\ row.highest_severity = gate_prev[1].highest_severity
            /\ row.gate_badge = gate_prev[1].gate_badge

-----------------------------------------------------------------------------
(* Pruning and invalidating the cache *)

\* the databases of a listing created before the cutoff of an age of days
CreatedBefore(listed, older_than_days, now) ==
    {db \in Range(listed) :
        /\ older_than_days # None
        /\ db.created_at < now - timedelta(older_than_days[1])}

\* the step is an operation op of the client that has returned
Returned(op) ==
    /\ mg_result' # None
    /\ mg_result'[1].op = op
    /\ mg_ops' = mg_ops + 1

NoDuplicates(seq) == \A i, j \in 1..Len(seq) : seq[i] = seq[j] => i = j

\* the directories outside paths are as they were, those in paths are gone
OnlyRemoved(paths) ==
    /\ \A d \in DOMAIN mg_fs \ paths : d \in DOMAIN mg_fs' /\ mg_fs'[d] = mg_fs[d]
    /\ DOMAIN mg_fs' = DOMAIN mg_fs \ paths

\* C21: prune(older_than_days=d) without a size limit removes exactly the
\* cached databases of the manager created before now - d days, returns
\* their paths and leaves every other directory as it was; prune with
\* neither argument removes nothing and returns nothing.
C21_AgePrune ==
    [][Returned("prune") /\ mg_result'[1].args[2] = None =>
              LET m == mg_result'[1].manager
                  older_than_days == mg_result'[1].args[1]
                  listed == manager_list_databases(mg_fs, m)
                  old == CreatedBefore(listed, older_than_days, mg_now)
                  removed == mg_result'[1].value
              IN  /\ Range(removed) = {db.path : db \in old}
                  /\ NoDuplicates(removed)
                  /\ OnlyRemoved(Range(removed))
                  /\ Range(manager_list_databases(mg_fs', m)) = Range(listed) \ old
                  /\ older_than_days = None => removed = <<>> /\ mg_fs' = mg_fs]_vars

\* a prune by age has removed the one database older than the cutoff and
\* kept three, one of them created exactly at the cutoff
C21_Witness ==
    /\ mg_result # None
    /\ mg_result[1].op = "prune"
    /\ mg_result[1].args = <<Some(5), None>>
    /\ Len(mg_result[1].value) = 1
    /\ LET listed == manager_list_databases(mg_fs, mg_result[1].manager)
       IN  /\ Len(listed) = 3
           /\ \E i \in 1..3 : listed[i].created_at = mg_now - timedelta(5)

\* C22: prune(max_total_bytes=m) removes, after the databases the age limit
\* of the same call removes, the oldest of the others one by one, oldest
\* first, and stops as soon as the recorded sizes of those left total at
\* most m: the databases removed by size are a prefix of the others in
\* order of age, nothing is removed once the total is at most m, the
\* databases listed afterwards total at most m, and every returned path is
\* returned once and is gone.
C22_SizePrune ==
    [][Returned("prune") /\ mg_result'[1].args[2] # None =>
          \A listed \in {manager_list_databases(mg_fs, mg_result'[1].manager)} :
          \A old \in {CreatedBefore(listed, mg_result'[1].args[1], mg_now)} :
          \A others \in {SelectSeq(listed, LAMBDA db : db \notin old)} :
          \A oldest_first \in {[i \in 1..Len(others) |-> others[Len(others) + 1 - i]]} :
          \A after \in {manager_list_databases(mg_fs', mg_result'[1].manager)} :
              LET max_total_bytes == mg_result'[1].args[2][1]
                  removed == mg_result'[1].value
                  k == Len(removed) - Cardinality(old)
              IN  /\ k \in 0..Len(others)
                  /\ Range(SubSeq(removed, 1, Cardinality(old))) = {db.path : db \in old}
                  /\ SubSeq(removed, Cardinality(old) + 1, Len(removed))
                        = PathsOf(SubSeq(oldest_first, 1, k))
                  /\ total_size(SubSeq(oldest_first, k + 1, Len(others)))
                        <= max_total_bytes
                  /\ k > 0 => total_size(SubSeq(oldest_first, k, Len(others)))
                                 > max_total_bytes
                  /\ after = SubSeq(others, 1, Len(others) - k)
                  /\ total_size(after) <= max_total_bytes
                  /\ NoDuplicates(removed)
                  /\ OnlyRemoved(Range(removed))]_vars

\* a prune by size has removed the two oldest of four databases and kept
\* the two newest, whose sizes total at most the limit
C22_Witness ==
    /\ mg_result # None
    /\ mg_result[1].op = "prune"
    /\ mg_result[1].args = <<None, Some(300)>>
    /\ Len(mg_result[1].value) = 2
    /\ LET listed == manager_list_databases(mg_fs, mg_result[1].manager)
       IN  /\ Len(listed) = 2
           /\ total_size(listed) = 142

\* C23: invalidate_cache(source_root, language) removes every cached
\* database of the manager whose source root and language are the given
\* ones, whatever its fingerprint, returns their paths and leaves every
\* other directory as it was.
C23_InvalidateCache ==
    [][Returned("invalidate_cache") =>
              LET m == mg_result'[1].manager
                  source_root == mg_result'[1].args[1]
                  language == mg_result'[1].args[2]
                  listed == manager_list_databases(mg_fs, m)
                  matching == {db \in Range(listed) :
                                  /\ db.source_root = source_root
                                  /\ db.language = language}
                  removed == mg_result'[1].value
              IN  /\ Range(removed) = {db.path : db \in matching}
                  /\ NoDuplicates(removed)
                  /\ OnlyRemoved(Range(removed))
                  /\ Range(manager_list_databases(mg_fs', m))
                        = Range(listed) \ matching]_vars

\* an invalidation has removed two databases of one source root and
\* language with different fingerprints, and has left a database of another
\* language and one of another source root
C23_Witness ==
    /\ mg_result # None
    /\ mg_result[1].op = "invalidate_cache"
    /\ mg_result[1].args = <<SourceRoot, "python">>
    /\ Len(mg_result[1].value) = 2
    /\ mg_result[1].value[1] # mg_result[1].value[2]
    /\ LET listed == manager_list_databases(mg_fs, mg_result[1].manager)
       IN  /\ \E i \in 1..Len(listed) : listed[i].language = "go"
           /\ \E i \in 1..Len(listed) :
                 listed[i].language = "python" /\ listed[i].source_root = "elsewhere"

-----------------------------------------------------------------------------
(* Two managers *)

\* C25: under every interleaving of create_database, list_databases, prune
\* and invalidate_cache on two managers with disjoint cache directories, the
\* cache directory of each manager is as it would be had that manager been
\* called alone, and every operation gives what it would have given then.
C25_NoInterference ==
    /\ \A m \in Managers : Below(mg_fs, m) = Below(mg_alone[m], m)
    /\ mg_result # None =>
          /\ mg_result[1].value = mg_result[1].alone.value
          /\ mg_result[1].raised = mg_result[1].alone.raised

=============================================================================
